---- MODULE Spec2Model ----
(***************************************************************************)
(* Model of the softrender math kernel: the fixed-size matrices Mat2f,     *)
(* Mat3f and Mat4f (construction, transpose, determinant, inverse,         *)
(* product), the Vec3f operations they are used with, and the view-matrix  *)
(* builder Mat4f::look_at.                                                 *)
(*                                                                         *)
(* An f32 is modelled by the exact real it denotes.  A value is the triple *)
(* <<n, d, k>> standing for (n/d)*sqrt(k), with d > 0, gcd(n, d) = 1 and k *)
(* a square-free positive integer (k = 1 for rationals, zero is <<0,1,1>>).*)
(* d = 0 marks the non-finite results of a division by zero: <<0,0,1>> is  *)
(* NaN and <<1,0,1>> an infinity whose sign is left open.  Rounding is not *)
(* modelled: every statement below is about exact arithmetic.              *)
(***************************************************************************)
EXTENDS Integers, Sequences, FiniteSets, TLC

VARIABLES dim, self, steps, out

vars == <<dim, self, steps, out>>

---------------------------------------------------------------------------
(* f32 arithmetic on exact values *)

Abs(x) == IF x < 0 THEN -x ELSE x

RECURSIVE Gcd(_, _)
Gcd(a, b) == IF b = 0 THEN a ELSE Gcd(b, a % b)

\* The canonical triple of (n/d)*sqrt(k), d # 0, k square-free.
Norm(n, d, k) ==
    IF n = 0 THEN <<0, 1, 1>>
    ELSE LET g == Gcd(Abs(n), Abs(d))
             s == IF d < 0 THEN -1 ELSE 1
         IN  <<s * (n \div g), Abs(d) \div g, k>>

\* The f32 literal n.0
F(n) == <<n, 1, 1>>

NaN == <<0, 0, 1>>
Inf == <<1, 0, 1>>

IsFinite(a) == a[2] # 0

\* a == 0.0, a > 0.0
FIsZero(a) == IsFinite(a) /\ a[1] = 0
FIsPos(a) == IsFinite(a) /\ a[1] > 0

FNeg(a) == <<-a[1], a[2], a[3]>>

\* a * b: sqrt(k1)*sqrt(k2) = g*sqrt((k1/g)*(k2/g)) with g = gcd(k1, k2).
FMul(a, b) ==
    IF a[2] = 1 /\ b[2] = 1 /\ a[3] = 1 /\ b[3] = 1
    THEN <<a[1] * b[1], 1, 1>>
    ELSE LET g == Gcd(a[3], b[3])
         IN  Norm(a[1] * b[1] * g, a[2] * b[2], (a[3] \div g) * (b[3] \div g))

\* a + b, defined when the sum is again of the form (n/d)*sqrt(k).
FAdd(a, b) ==
    CASE a[2] = 1 /\ b[2] = 1 /\ a[3] = 1 /\ b[3] = 1 -> <<a[1] + b[1], 1, 1>>
      [] a[1] = 0 /\ IsFinite(a) -> b
      [] b[1] = 0 /\ IsFinite(b) -> a
      [] a[1] # 0 /\ b[1] # 0 /\ IsFinite(a) /\ IsFinite(b) /\ a[3] = b[3] ->
            LET l == (a[2] \div Gcd(a[2], b[2])) * b[2]
            IN  Norm(a[1] * (l \div a[2]) + b[1] * (l \div b[2]), l, a[3])

FSub(a, b) == FAdd(a, FNeg(b))

\* a / b; a division by zero gives NaN (0/0) or an infinity.
FDiv(a, b) ==
    IF b[1] = 0
    THEN IF a[1] = 0 THEN NaN ELSE Inf
    ELSE FMul(a, Norm(b[2], b[1] * b[3], b[3]))

\* The largest s with s*s dividing m (m >= 1).
SquarePart(m) ==
    CHOOSE s \in 1..m :
        /\ m % (s * s) = 0
        /\ \A t \in (s + 1)..m : m % (t * t) # 0

\* a.sqrt() for a rational a >= 0: sqrt(n/d) = sqrt(n*d)/d.
FSqrt(a) ==
    CASE a[1] = 0 /\ IsFinite(a) -> F(0)
      [] a[1] > 0 /\ IsFinite(a) /\ a[3] = 1 ->
            LET m == a[1] * a[2]
                s == SquarePart(m)
            IN  Norm(s, a[2], m \div (s * s))

\* Element [i][j] of a nested Rust array (indices from 0).
At(data, i, j) == data[i + 1][j + 1]

---------------------------------------------------------------------------
(* Mat2f *)

Mat2f_from_array_cols(data) ==
    [ m00 |-> At(data, 0, 0),
      m01 |-> At(data, 1, 0),
      m10 |-> At(data, 0, 1),
      m11 |-> At(data, 1, 1) ]

Mat2f_from_array_rows(data) ==
    [ m00 |-> At(data, 0, 0),
      m01 |-> At(data, 0, 1),
      m10 |-> At(data, 1, 0),
      m11 |-> At(data, 1, 1) ]

Mat2f_to_array_rows(m) ==
    << <<m.m00, m.m01>>,
       <<m.m10, m.m11>> >>

Mat2f_to_array_cols(m) ==
    << <<m.m00, m.m10>>,
       <<m.m01, m.m11>> >>

Mat2f_identity ==
    [ m00 |-> F(1), m01 |-> F(0),
      m10 |-> F(0), m11 |-> F(1) ]

\* A transpose that swaps nothing.
Mat2f_transpose_unswapped(m) ==
    [ m00 |-> m.m00,
      m01 |-> m.m01,
      m10 |-> m.m10,
      m11 |-> m.m11 ]

Mat2f_transpose(m) ==
    [ m00 |-> m.m00,
      m01 |-> m.m10,
      m10 |-> m.m01,
      m11 |-> m.m11 ]

Mat2f_determinant(m) ==
    FSub(FMul(m.m00, m.m11), FMul(m.m01, m.m10))

\* Mat2f::invert returns Self, not an Option: it divides whatever det is.
Mat2f_invert(m) ==
    LET det == Mat2f_determinant(m)
    IN  [ m00 |-> FDiv(m.m11, det),
          m01 |-> FDiv(m.m01, det),
          m10 |-> FDiv(m.m10, det),
          m11 |-> FDiv(m.m00, det) ]

Mat2f_add(m, rhs) ==
    [ m00 |-> FAdd(m.m00, rhs.m00),
      m01 |-> FAdd(m.m01, rhs.m01),
      m10 |-> FAdd(m.m10, rhs.m10),
      m11 |-> FAdd(m.m11, rhs.m11) ]

Mat2f_sub(m, rhs) ==
    [ m00 |-> FSub(m.m00, rhs.m00),
      m01 |-> FSub(m.m01, rhs.m01),
      m10 |-> FSub(m.m10, rhs.m10),
      m11 |-> FSub(m.m11, rhs.m11) ]

Mat2f_mul(m, rhs) ==
    [ m00 |-> FAdd(FMul(m.m00, rhs.m00), FMul(m.m01, rhs.m10)),
      m01 |-> FAdd(FMul(m.m00, rhs.m01), FMul(m.m01, rhs.m11)),
      m10 |-> FAdd(FMul(m.m10, rhs.m00), FMul(m.m11, rhs.m10)),
      m11 |-> FAdd(FMul(m.m10, rhs.m01), FMul(m.m11, rhs.m11)) ]

\* Option<Self>: None is the empty tuple, Some(m) the one-element tuple.
None == <<>>
Some(m) == <<m>>

---------------------------------------------------------------------------
(* Mat3f *)

\* A from_cols that reads its argument as rows.
Mat3f_from_cols_as_rows(cols) ==
    [ c0r0 |-> At(cols, 0, 0),
      c0r1 |-> At(cols, 0, 1),
      c0r2 |-> At(cols, 0, 2),
      c1r0 |-> At(cols, 1, 0),
      c1r1 |-> At(cols, 1, 1),
      c1r2 |-> At(cols, 1, 2),
      c2r0 |-> At(cols, 2, 0),
      c2r1 |-> At(cols, 2, 1),
      c2r2 |-> At(cols, 2, 2) ]

Mat3f_from_cols(cols) ==
    [ c0r0 |-> At(cols, 0, 0),
      c0r1 |-> At(cols, 1, 0),
      c0r2 |-> At(cols, 2, 0),
      c1r0 |-> At(cols, 0, 1),
      c1r1 |-> At(cols, 1, 1),
      c1r2 |-> At(cols, 2, 1),
      c2r0 |-> At(cols, 0, 2),
      c2r1 |-> At(cols, 1, 2),
      c2r2 |-> At(cols, 2, 2) ]

Mat3f_from_rows(rows) ==
    [ c0r0 |-> At(rows, 0, 0),
      c0r1 |-> At(rows, 0, 1),
      c0r2 |-> At(rows, 0, 2),
      c1r0 |-> At(rows, 1, 0),
      c1r1 |-> At(rows, 1, 1),
      c1r2 |-> At(rows, 1, 2),
      c2r0 |-> At(rows, 2, 0),
      c2r1 |-> At(rows, 2, 1),
      c2r2 |-> At(rows, 2, 2) ]

Mat3f_to_rows(m) ==
    << <<m.c0r0, m.c0r1, m.c0r2>>,
       <<m.c1r0, m.c1r1, m.c1r2>>,
       <<m.c2r0, m.c2r1, m.c2r2>> >>

Mat3f_cols(m) ==
    << <<m.c0r0, m.c1r0, m.c2r0>>,
       <<m.c0r1, m.c1r1, m.c2r1>>,
       <<m.c0r2, m.c1r2, m.c2r2>> >>

Mat3f_zero ==
    [ c0r0 |-> F(0),
      c0r1 |-> F(0),
      c0r2 |-> F(0),
      c1r0 |-> F(0),
      c1r1 |-> F(0),
      c1r2 |-> F(0),
      c2r0 |-> F(0),
      c2r1 |-> F(0),
      c2r2 |-> F(0) ]

Mat3f_identity ==
    [ c0r0 |-> F(1),
      c0r1 |-> F(0),
      c0r2 |-> F(0),
      c1r0 |-> F(0),
      c1r1 |-> F(1),
      c1r2 |-> F(0),
      c2r0 |-> F(0),
      c2r1 |-> F(0),
      c2r2 |-> F(1) ]

Mat3f_transpose(m) ==
    [ c0r0 |-> m.c0r0,
      c0r1 |-> m.c1r0,
      c0r2 |-> m.c2r0,
      c1r0 |-> m.c0r1,
      c1r1 |-> m.c1r1,
      c1r2 |-> m.c2r1,
      c2r0 |-> m.c0r2,
      c2r1 |-> m.c1r2,
      c2r2 |-> m.c2r2 ]

Mat3f_determinant(m) ==
    LET b01 == FMul(m.c0r0, FSub(FMul(m.c1r1, m.c2r2), FMul(m.c2r1, m.c1r2)))
        b02 == FMul(m.c1r0, FSub(FMul(m.c0r1, m.c2r2), FMul(m.c2r1, m.c0r2)))
        b03 == FMul(m.c2r0, FSub(FMul(m.c0r1, m.c1r2), FMul(m.c1r1, m.c0r2)))
    IN  FAdd(FSub(b01, b02), b03)

Mat3f_invert(m) ==
    LET det == Mat3f_determinant(m)
    IN  IF FIsZero(det)
        THEN None
        ELSE Some(
          [ c0r0 |-> FDiv(FSub(FMul(m.c1r1, m.c2r2), FMul(m.c1r2, m.c2r1)), det),
            c0r1 |-> FDiv(FNeg(FSub(FMul(m.c0r1, m.c2r2), FMul(m.c0r2, m.c2r1))), det),
            c0r2 |-> FDiv(FSub(FMul(m.c0r1, m.c1r2), FMul(m.c0r2, m.c1r1)), det),
            c1r0 |-> FDiv(FNeg(FAdd(FMul(FNeg(m.c2r0), m.c1r2), FMul(m.c1r0, m.c2r2))), det),
            c1r1 |-> FDiv(FAdd(FMul(FNeg(m.c2r0), m.c0r2), FMul(m.c0r0, m.c2r2)), det),
            c1r2 |-> FDiv(FNeg(FAdd(FMul(FNeg(m.c1r0), m.c0r2), FMul(m.c0r0, m.c1r2))), det),
            c2r0 |-> FDiv(FAdd(FMul(FNeg(m.c2r0), m.c1r1), FMul(m.c1r0, m.c2r1)), det),
            c2r1 |-> FDiv(FNeg(FAdd(FMul(FNeg(m.c2r0), m.c0r1), FMul(m.c0r0, m.c2r1))), det),
            c2r2 |-> FDiv(FAdd(FMul(FNeg(m.c1r0), m.c0r2), FMul(m.c0r0, m.c1r1)), det) ])

Mat3f_add(m, rhs) ==
    [ c0r0 |-> FAdd(m.c0r0, rhs.c0r0),
      c0r1 |-> FAdd(m.c0r1, rhs.c0r1),
      c0r2 |-> FAdd(m.c0r2, rhs.c0r2),
      c1r0 |-> FAdd(m.c1r0, rhs.c1r0),
      c1r1 |-> FAdd(m.c1r1, rhs.c1r1),
      c1r2 |-> FAdd(m.c1r2, rhs.c1r2),
      c2r0 |-> FAdd(m.c2r0, rhs.c2r0),
      c2r1 |-> FAdd(m.c2r1, rhs.c2r1),
      c2r2 |-> FAdd(m.c2r2, rhs.c2r2) ]

Mat3f_sub(m, rhs) ==
    [ c0r0 |-> FSub(m.c0r0, rhs.c0r0),
      c0r1 |-> FSub(m.c0r1, rhs.c0r1),
      c0r2 |-> FSub(m.c0r2, rhs.c0r2),
      c1r0 |-> FSub(m.c1r0, rhs.c1r0),
      c1r1 |-> FSub(m.c1r1, rhs.c1r1),
      c1r2 |-> FSub(m.c1r2, rhs.c1r2),
      c2r0 |-> FSub(m.c2r0, rhs.c2r0),
      c2r1 |-> FSub(m.c2r1, rhs.c2r1),
      c2r2 |-> FSub(m.c2r2, rhs.c2r2) ]

\* The element-wise product, not the matrix product.
Mat3f_mul_elementwise(m, rhs) ==
    [ f \in DOMAIN m |-> FMul(m[f], rhs[f]) ]

Mat3f_mul(m, rhs) ==
    [ c0r0 |-> FAdd(FAdd(FMul(m.c0r0, rhs.c0r0), FMul(m.c0r1, rhs.c1r0)), FMul(m.c0r2, rhs.c2r0)),
      c0r1 |-> FAdd(FAdd(FMul(m.c0r0, rhs.c0r1), FMul(m.c0r1, rhs.c1r1)), FMul(m.c0r2, rhs.c2r1)),
      c0r2 |-> FAdd(FAdd(FMul(m.c0r0, rhs.c0r2), FMul(m.c0r1, rhs.c1r2)), FMul(m.c0r2, rhs.c2r2)),
      c1r0 |-> FAdd(FAdd(FMul(m.c1r0, rhs.c0r0), FMul(m.c1r1, rhs.c1r0)), FMul(m.c1r2, rhs.c2r0)),
      c1r1 |-> FAdd(FAdd(FMul(m.c1r0, rhs.c0r1), FMul(m.c1r1, rhs.c1r1)), FMul(m.c1r2, rhs.c2r1)),
      c1r2 |-> FAdd(FAdd(FMul(m.c1r0, rhs.c0r2), FMul(m.c1r1, rhs.c1r2)), FMul(m.c1r2, rhs.c2r2)),
      c2r0 |-> FAdd(FAdd(FMul(m.c2r0, rhs.c0r0), FMul(m.c2r1, rhs.c1r0)), FMul(m.c2r2, rhs.c2r0)),
      c2r1 |-> FAdd(FAdd(FMul(m.c2r0, rhs.c0r1), FMul(m.c2r1, rhs.c1r1)), FMul(m.c2r2, rhs.c2r1)),
      c2r2 |-> FAdd(FAdd(FMul(m.c2r0, rhs.c0r2), FMul(m.c2r1, rhs.c1r2)), FMul(m.c2r2, rhs.c2r2)) ]

---------------------------------------------------------------------------
(* Mat4f *)

Mat4f_from_cols(data) ==
    [ c0r0 |-> At(data, 0, 0),
      c0r1 |-> At(data, 1, 0),
      c0r2 |-> At(data, 2, 0),
      c0r3 |-> At(data, 3, 0),
      c1r0 |-> At(data, 0, 1),
      c1r1 |-> At(data, 1, 1),
      c1r2 |-> At(data, 2, 1),
      c1r3 |-> At(data, 3, 1),
      c2r0 |-> At(data, 0, 2),
      c2r1 |-> At(data, 1, 2),
      c2r2 |-> At(data, 2, 2),
      c2r3 |-> At(data, 3, 2),
      c3r0 |-> At(data, 0, 3),
      c3r1 |-> At(data, 1, 3),
      c3r2 |-> At(data, 2, 3),
      c3r3 |-> At(data, 3, 3) ]

Mat4f_from_rows(data) ==
    [ c0r0 |-> At(data, 0, 0),
      c0r1 |-> At(data, 0, 1),
      c0r2 |-> At(data, 0, 2),
      c0r3 |-> At(data, 0, 3),
      c1r0 |-> At(data, 1, 0),
      c1r1 |-> At(data, 1, 1),
      c1r2 |-> At(data, 1, 2),
      c1r3 |-> At(data, 1, 3),
      c2r0 |-> At(data, 2, 0),
      c2r1 |-> At(data, 2, 1),
      c2r2 |-> At(data, 2, 2),
      c2r3 |-> At(data, 2, 3),
      c3r0 |-> At(data, 3, 0),
      c3r1 |-> At(data, 3, 1),
      c3r2 |-> At(data, 3, 2),
      c3r3 |-> At(data, 3, 3) ]

Mat4f_zero ==
    [ c0r0 |-> F(0),
      c0r1 |-> F(0),
      c0r2 |-> F(0),
      c0r3 |-> F(0),
      c1r0 |-> F(0),
      c1r1 |-> F(0),
      c1r2 |-> F(0),
      c1r3 |-> F(0),
      c2r0 |-> F(0),
      c2r1 |-> F(0),
      c2r2 |-> F(0),
      c2r3 |-> F(0),
      c3r0 |-> F(0),
      c3r1 |-> F(0),
      c3r2 |-> F(0),
      c3r3 |-> F(0) ]

Mat4f_identity ==
    [ c0r0 |-> F(1),
      c0r1 |-> F(0),
      c0r2 |-> F(0),
      c0r3 |-> F(0),
      c1r0 |-> F(0),
      c1r1 |-> F(1),
      c1r2 |-> F(0),
      c1r3 |-> F(0),
      c2r0 |-> F(0),
      c2r1 |-> F(0),
      c2r2 |-> F(1),
      c2r3 |-> F(0),
      c3r0 |-> F(0),
      c3r1 |-> F(0),
      c3r2 |-> F(0),
      c3r3 |-> F(1) ]

Mat4f_transpose(m) ==
    [ c0r0 |-> m.c0r0,
      c0r1 |-> m.c1r0,
      c0r2 |-> m.c2r0,
      c0r3 |-> m.c3r0,
      c1r0 |-> m.c0r1,
      c1r1 |-> m.c1r1,
      c1r2 |-> m.c2r1,
      c1r3 |-> m.c3r1,
      c2r0 |-> m.c0r2,
      c2r1 |-> m.c1r2,
      c2r2 |-> m.c2r2,
      c2r3 |-> m.c3r2,
      c3r0 |-> m.c0r3,
      c3r1 |-> m.c1r3,
      c3r2 |-> m.c2r3,
      c3r3 |-> m.c3r3 ]

\* The expansion with its last term dropped.
Mat4f_determinant_short(m) ==
    LET b00 == FSub(FMul(m.c0r0, m.c1r1), FMul(m.c0r1, m.c1r0))
        b01 == FSub(FMul(m.c0r0, m.c1r2), FMul(m.c0r2, m.c1r0))
        b02 == FSub(FMul(m.c0r0, m.c1r3), FMul(m.c0r3, m.c1r0))
        b03 == FSub(FMul(m.c0r1, m.c1r2), FMul(m.c0r2, m.c1r1))
        b04 == FSub(FMul(m.c0r1, m.c1r3), FMul(m.c0r3, m.c1r1))
        b07 == FSub(FMul(m.c2r0, m.c3r2), FMul(m.c2r2, m.c3r0))
        b08 == FSub(FMul(m.c2r0, m.c3r3), FMul(m.c2r3, m.c3r0))
        b09 == FSub(FMul(m.c2r1, m.c3r2), FMul(m.c2r2, m.c3r1))
        b10 == FSub(FMul(m.c2r1, m.c3r3), FMul(m.c2r3, m.c3r1))
        b11 == FSub(FMul(m.c2r2, m.c3r3), FMul(m.c2r3, m.c3r2))
    IN  FSub(FAdd(FAdd(FSub(FMul(b00, b11), FMul(b01, b10)), FMul(b02, b09)), FMul(b03, b08)), FMul(b04, b07))

Mat4f_determinant(m) ==
    LET b00 == FSub(FMul(m.c0r0, m.c1r1), FMul(m.c0r1, m.c1r0))
        b01 == FSub(FMul(m.c0r0, m.c1r2), FMul(m.c0r2, m.c1r0))
        b02 == FSub(FMul(m.c0r0, m.c1r3), FMul(m.c0r3, m.c1r0))
        b03 == FSub(FMul(m.c0r1, m.c1r2), FMul(m.c0r2, m.c1r1))
        b04 == FSub(FMul(m.c0r1, m.c1r3), FMul(m.c0r3, m.c1r1))
        b05 == FSub(FMul(m.c0r2, m.c1r3), FMul(m.c0r3, m.c1r2))
        b06 == FSub(FMul(m.c2r0, m.c3r1), FMul(m.c2r1, m.c3r0))
        b07 == FSub(FMul(m.c2r0, m.c3r2), FMul(m.c2r2, m.c3r0))
        b08 == FSub(FMul(m.c2r0, m.c3r3), FMul(m.c2r3, m.c3r0))
        b09 == FSub(FMul(m.c2r1, m.c3r2), FMul(m.c2r2, m.c3r1))
        b10 == FSub(FMul(m.c2r1, m.c3r3), FMul(m.c2r3, m.c3r1))
        b11 == FSub(FMul(m.c2r2, m.c3r3), FMul(m.c2r3, m.c3r2))
    IN  FAdd(FSub(FAdd(FAdd(FSub(FMul(b00, b11), FMul(b01, b10)), FMul(b02, b09)), FMul(b03, b08)), FMul(b04, b07)), FMul(b05, b06))

Mat4f_invert(m) ==
    LET x00 == m.c0r0
        x01 == m.c0r1
        x02 == m.c0r3
        x03 == m.c0r3
        x04 == m.c1r0
        x05 == m.c1r1
        x06 == m.c1r2
        x07 == m.c1r3
        x08 == m.c2r0
        x09 == m.c2r1
        x10 == m.c2r2
        x11 == m.c2r3
        x12 == m.c3r0
        x13 == m.c3r1
        x14 == m.c3r2
        x15 == m.c3r3
        a00 == FSub(FMul(x00, x05), FMul(x01, x04))
        a01 == FSub(FMul(x00, x06), FMul(x02, x04))
        a02 == FSub(FMul(x00, x07), FMul(x03, x04))
        a03 == FSub(FMul(x01, x06), FMul(x02, x05))
        a04 == FSub(FMul(x01, x07), FMul(x03, x05))
        a05 == FSub(FMul(x02, x07), FMul(x03, x06))
        b00 == FSub(FMul(x08, x13), FMul(x09, x12))
        b01 == FSub(FMul(x08, x14), FMul(x10, x12))
        b02 == FSub(FMul(x08, x15), FMul(x11, x12))
        b03 == FSub(FMul(x09, x14), FMul(x10, x13))
        b04 == FSub(FMul(x09, x15), FMul(x11, x13))
        b05 == FSub(FMul(x10, x15), FMul(x11, x14))
        det == FAdd(FSub(FAdd(FAdd(FSub(FMul(a00, b05), FMul(a01, b04)), FMul(a02, b03)), FMul(a03, b02)), FMul(a04, b01)), FMul(a05, b00))
    IN  IF FIsZero(det)
        THEN None
        ELSE LET inv_det == FDiv(F(1), det)
             IN  Some(
          [ c0r0 |-> FMul(FAdd(FSub(FAdd(F(0), FMul(x05, b05)), FMul(x06, b04)), FMul(x07, b03)), inv_det),
            c0r1 |-> FMul(FSub(FAdd(FSub(F(0), FMul(x01, b05)), FMul(x02, b04)), FMul(x03, b03)), inv_det),
            c0r2 |-> FMul(FAdd(FSub(FAdd(F(0), FMul(x13, a05)), FMul(x14, a04)), FMul(x15, a03)), inv_det),
            c0r3 |-> FMul(FSub(FAdd(FSub(F(0), FMul(x09, a05)), FMul(x10, a04)), FMul(x11, a03)), inv_det),
            c1r0 |-> FMul(FSub(FAdd(FSub(F(0), FMul(x04, b05)), FMul(x06, b02)), FMul(x07, b01)), inv_det),
            c1r1 |-> FMul(FAdd(FSub(FAdd(F(0), FMul(x00, b05)), FMul(x02, b02)), FMul(x03, b01)), inv_det),
            c1r2 |-> FMul(FSub(FAdd(FSub(F(0), FMul(x12, a05)), FMul(x14, a02)), FMul(x15, a01)), inv_det),
            c1r3 |-> FMul(FAdd(FSub(FAdd(F(0), FMul(x08, a05)), FMul(x10, a02)), FMul(x11, a01)), inv_det),
            c2r0 |-> FMul(FAdd(FSub(FAdd(F(0), FMul(x04, b04)), FMul(x05, b02)), FMul(x07, b00)), inv_det),
            c2r1 |-> FMul(FSub(FAdd(FSub(F(0), FMul(x00, b04)), FMul(x01, b02)), FMul(x03, b00)), inv_det),
            c2r2 |-> FMul(FAdd(FSub(FAdd(F(0), FMul(x12, a04)), FMul(x13, a02)), FMul(x15, a00)), inv_det),
            c2r3 |-> FMul(FSub(FAdd(FSub(F(0), FMul(x08, a04)), FMul(x09, a02)), FMul(x11, a00)), inv_det),
            c3r0 |-> FMul(FSub(FAdd(FSub(F(0), FMul(x04, b03)), FMul(x05, b01)), FMul(x06, b00)), inv_det),
            c3r1 |-> FMul(FAdd(FSub(FAdd(F(0), FMul(x00, b03)), FMul(x01, b01)), FMul(x02, b00)), inv_det),
            c3r2 |-> FMul(FSub(FAdd(FSub(F(0), FMul(x12, a03)), FMul(x13, a01)), FMul(x14, a00)), inv_det),
            c3r3 |-> FMul(FAdd(FSub(FAdd(F(0), FMul(x08, a03)), FMul(x09, a01)), FMul(x10, a00)), inv_det) ])

Mat4f_add(m, rhs) ==
    [ c0r0 |-> FAdd(m.c0r0, rhs.c0r0),
      c0r1 |-> FAdd(m.c0r1, rhs.c0r1),
      c0r2 |-> FAdd(m.c0r2, rhs.c0r2),
      c0r3 |-> FAdd(m.c0r3, rhs.c0r3),
      c1r0 |-> FAdd(m.c1r0, rhs.c1r0),
      c1r1 |-> FAdd(m.c1r1, rhs.c1r1),
      c1r2 |-> FAdd(m.c1r2, rhs.c1r2),
      c1r3 |-> FAdd(m.c1r3, rhs.c1r3),
      c2r0 |-> FAdd(m.c2r0, rhs.c2r0),
      c2r1 |-> FAdd(m.c2r1, rhs.c2r1),
      c2r2 |-> FAdd(m.c2r2, rhs.c2r2),
      c2r3 |-> FAdd(m.c2r3, rhs.c2r3),
      c3r0 |-> FAdd(m.c3r0, rhs.c3r0),
      c3r1 |-> FAdd(m.c3r1, rhs.c3r1),
      c3r2 |-> FAdd(m.c3r2, rhs.c3r2),
      c3r3 |-> FAdd(m.c3r3, rhs.c3r3) ]

Mat4f_sub(m, rhs) ==
    [ c0r0 |-> FSub(m.c0r0, rhs.c0r0),
      c0r1 |-> FSub(m.c0r1, rhs.c0r1),
      c0r2 |-> FSub(m.c0r2, rhs.c0r2),
      c0r3 |-> FSub(m.c0r3, rhs.c0r3),
      c1r0 |-> FSub(m.c1r0, rhs.c1r0),
      c1r1 |-> FSub(m.c1r1, rhs.c1r1),
      c1r2 |-> FSub(m.c1r2, rhs.c1r2),
      c1r3 |-> FSub(m.c1r3, rhs.c1r3),
      c2r0 |-> FSub(m.c2r0, rhs.c2r0),
      c2r1 |-> FSub(m.c2r1, rhs.c2r1),
      c2r2 |-> FSub(m.c2r2, rhs.c2r2),
      c2r3 |-> FSub(m.c2r3, rhs.c2r3),
      c3r0 |-> FSub(m.c3r0, rhs.c3r0),
      c3r1 |-> FSub(m.c3r1, rhs.c3r1),
      c3r2 |-> FSub(m.c3r2, rhs.c3r2),
      c3r3 |-> FSub(m.c3r3, rhs.c3r3) ]

Mat4f_mul(m, rhs) ==
    [ c0r0 |-> FAdd(FAdd(FAdd(FMul(m.c0r0, rhs.c0r0), FMul(m.c0r1, rhs.c1r0)), FMul(m.c0r2, rhs.c2r0)), FMul(m.c0r3, rhs.c3r0)),
      c0r1 |-> FAdd(FAdd(FAdd(FMul(m.c0r0, rhs.c0r1), FMul(m.c0r1, rhs.c1r1)), FMul(m.c0r2, rhs.c2r1)), FMul(m.c0r3, rhs.c3r1)),
      c0r2 |-> FAdd(FAdd(FAdd(FMul(m.c0r0, rhs.c0r2), FMul(m.c0r1, rhs.c1r2)), FMul(m.c0r2, rhs.c2r2)), FMul(m.c0r3, rhs.c3r2)),
      c0r3 |-> FAdd(FAdd(FAdd(FMul(m.c0r0, rhs.c0r3), FMul(m.c0r1, rhs.c1r3)), FMul(m.c0r2, rhs.c2r3)), FMul(m.c0r3, rhs.c3r3)),
      c1r0 |-> FAdd(FAdd(FAdd(FMul(m.c1r0, rhs.c0r0), FMul(m.c1r1, rhs.c1r0)), FMul(m.c1r2, rhs.c2r0)), FMul(m.c1r3, rhs.c3r0)),
      c1r1 |-> FAdd(FAdd(FAdd(FMul(m.c1r0, rhs.c0r1), FMul(m.c1r1, rhs.c1r1)), FMul(m.c1r2, rhs.c2r1)), FMul(m.c1r3, rhs.c3r1)),
      c1r2 |-> FAdd(FAdd(FAdd(FMul(m.c1r0, rhs.c0r2), FMul(m.c1r1, rhs.c1r2)), FMul(m.c1r2, rhs.c2r2)), FMul(m.c1r3, rhs.c3r2)),
      c1r3 |-> FAdd(FAdd(FAdd(FMul(m.c1r0, rhs.c0r3), FMul(m.c1r1, rhs.c1r3)), FMul(m.c1r2, rhs.c2r3)), FMul(m.c1r3, rhs.c3r3)),
      c2r0 |-> FAdd(FAdd(FAdd(FMul(m.c2r0, rhs.c0r0), FMul(m.c2r1, rhs.c1r0)), FMul(m.c2r2, rhs.c2r0)), FMul(m.c2r3, rhs.c3r0)),
      c2r1 |-> FAdd(FAdd(FAdd(FMul(m.c2r0, rhs.c0r1), FMul(m.c2r1, rhs.c1r1)), FMul(m.c2r2, rhs.c2r1)), FMul(m.c2r3, rhs.c3r1)),
      c2r2 |-> FAdd(FAdd(FAdd(FMul(m.c2r0, rhs.c0r2), FMul(m.c2r1, rhs.c1r2)), FMul(m.c2r2, rhs.c2r2)), FMul(m.c2r3, rhs.c3r2)),
      c2r3 |-> FAdd(FAdd(FAdd(FMul(m.c2r0, rhs.c0r3), FMul(m.c2r1, rhs.c1r3)), FMul(m.c2r2, rhs.c2r3)), FMul(m.c2r3, rhs.c3r3)),
      c3r0 |-> FAdd(FAdd(FAdd(FMul(m.c3r0, rhs.c0r0), FMul(m.c3r1, rhs.c1r0)), FMul(m.c3r2, rhs.c2r0)), FMul(m.c3r3, rhs.c3r0)),
      c3r1 |-> FAdd(FAdd(FAdd(FMul(m.c3r0, rhs.c0r1), FMul(m.c3r1, rhs.c1r1)), FMul(m.c3r2, rhs.c2r1)), FMul(m.c3r3, rhs.c3r1)),
      c3r2 |-> FAdd(FAdd(FAdd(FMul(m.c3r0, rhs.c0r2), FMul(m.c3r1, rhs.c1r2)), FMul(m.c3r2, rhs.c2r2)), FMul(m.c3r3, rhs.c3r2)),
      c3r3 |-> FAdd(FAdd(FAdd(FMul(m.c3r0, rhs.c0r3), FMul(m.c3r1, rhs.c1r3)), FMul(m.c3r2, rhs.c2r3)), FMul(m.c3r3, rhs.c3r3)) ]

---------------------------------------------------------------------------
(* Vec3f *)

Vec3f_from_parts(x, y, z) == [x |-> x, y |-> y, z |-> z]

Vec3f_normalize(v) ==
    LET nor2 == FAdd(FAdd(FMul(v.x, v.x), FMul(v.y, v.y)), FMul(v.z, v.z))
    IN  IF FIsPos(nor2)
        THEN LET inv_nor == FDiv(F(1), FSqrt(nor2))
             IN  [ x |-> FMul(v.x, inv_nor),
                   y |-> FMul(v.y, inv_nor),
                   z |-> FMul(v.z, inv_nor) ]
        ELSE [ x |-> v.x,
               y |-> v.y,
               z |-> v.z ]

Vec3f_dot(v, rhs) ==
    FAdd(FAdd(FMul(v.x, rhs.x), FMul(v.y, rhs.y)), FMul(v.z, rhs.z))

\* A cross product with the terms of y in the wrong order.
Vec3f_cross_y_swapped(l, r) ==
    [ x |-> FSub(FMul(l.y, r.z), FMul(l.z, r.y)),
      y |-> FSub(FMul(l.x, r.z), FMul(l.z, r.x)),
      z |-> FSub(FMul(l.x, r.y), FMul(l.y, r.x)) ]

Vec3f_cross(l, r) ==
    [ x |-> FSub(FMul(l.y, r.z), FMul(l.z, r.y)),
      y |-> FSub(FMul(l.z, r.x), FMul(l.x, r.z)),
      z |-> FSub(FMul(l.x, r.y), FMul(l.y, r.x)) ]

\* impl Neg for Vec3f
Vec3f_neg(v) ==
    [ x |-> FNeg(v.x),
      y |-> FNeg(v.y),
      z |-> FNeg(v.z) ]

Vec3f_sub(v, rhs) ==
    [ x |-> FSub(v.x, rhs.x),
      y |-> FSub(v.y, rhs.y),
      z |-> FSub(v.z, rhs.z) ]

\* The transform without the perspective divide.
Vec3f_mul_Mat4f_undivided(v, rhs) ==
    [ x |-> FAdd(FAdd(FAdd(FMul(v.x, rhs.c0r0), FMul(v.y, rhs.c1r0)), FMul(v.z, rhs.c2r0)), rhs.c3r0),
      y |-> FAdd(FAdd(FAdd(FMul(v.x, rhs.c0r1), FMul(v.y, rhs.c1r1)), FMul(v.z, rhs.c2r1)), rhs.c3r1),
      z |-> FAdd(FAdd(FAdd(FMul(v.x, rhs.c0r2), FMul(v.y, rhs.c1r2)), FMul(v.z, rhs.c2r2)), rhs.c3r2) ]

\* impl Mul<Mat4f> for Vec3f
Vec3f_mul_Mat4f(v, rhs) ==
    LET x == FAdd(FAdd(FAdd(FMul(v.x, rhs.c0r0), FMul(v.y, rhs.c1r0)), FMul(v.z, rhs.c2r0)), rhs.c3r0)
        y == FAdd(FAdd(FAdd(FMul(v.x, rhs.c0r1), FMul(v.y, rhs.c1r1)), FMul(v.z, rhs.c2r1)), rhs.c3r1)
        z == FAdd(FAdd(FAdd(FMul(v.x, rhs.c0r2), FMul(v.y, rhs.c1r2)), FMul(v.z, rhs.c2r2)), rhs.c3r2)
        w == FAdd(FAdd(FAdd(FMul(v.x, rhs.c0r3), FMul(v.y, rhs.c1r3)), FMul(v.z, rhs.c2r3)), rhs.c3r3)
    IN  IF ~FIsZero(w)
        THEN [ x |-> FDiv(x, w),
               y |-> FDiv(y, w),
               z |-> FDiv(z, w) ]
        ELSE [ x |-> x, y |-> y, z |-> z ]

\* look_at with the right vector left unnormalized.
Mat4f_look_at_unnormalized(eye, target, up) ==
    LET zaxis == Vec3f_normalize(Vec3f_sub(eye, target))
        xaxis == Vec3f_cross(up, zaxis)
        yaxis == Vec3f_cross(zaxis, xaxis)
    IN  Mat4f_from_rows(
          << <<xaxis.x, yaxis.x, zaxis.x, F(0)>>,
             <<xaxis.y, yaxis.y, zaxis.y, F(0)>>,
             <<xaxis.z, yaxis.z, zaxis.z, F(0)>>,
             <<FNeg(Vec3f_dot(xaxis, eye)), FNeg(Vec3f_dot(yaxis, eye)),
               FNeg(Vec3f_dot(zaxis, eye)), F(1)>> >>)

Mat4f_look_at(eye, target, up) ==
    LET zaxis == Vec3f_normalize(Vec3f_sub(eye, target))
        xaxis == Vec3f_normalize(Vec3f_cross(up, zaxis))
        yaxis == Vec3f_cross(zaxis, xaxis)
    IN  Mat4f_from_rows(
          << <<xaxis.x, yaxis.x, zaxis.x, F(0)>>,
             <<xaxis.y, yaxis.y, zaxis.y, F(0)>>,
             <<xaxis.z, yaxis.z, zaxis.z, F(0)>>,
             <<FNeg(Vec3f_dot(xaxis, eye)), FNeg(Vec3f_dot(yaxis, eye)),
               FNeg(Vec3f_dot(zaxis, eye)), F(1)>> >>)

\* (fov_deg * 0.5 / 180.0 * PI).tan() for the angles whose tangent is of the
\* form (n/d)*sqrt(k): tan 30 = sqrt(3)/3, tan 45 = 1, tan 60 = sqrt(3).
TanHalfDeg(fov_deg) ==
    CASE fov_deg = F(60) -> <<1, 3, 3>>
      [] fov_deg = F(90) -> F(1)
      [] fov_deg = F(120) -> <<1, 1, 3>>

\* perspective with the depth term far / (far + near).
Mat4f_perspective_sum(fov_deg, aspect_ratio, near, far) ==
    LET fov_rad == FDiv(F(1), TanHalfDeg(fov_deg))
    IN  [ c0r0 |-> FMul(aspect_ratio, fov_rad),
          c0r1 |-> F(0),
          c0r2 |-> F(0),
          c0r3 |-> F(0),
          c1r0 |-> F(0),
          c1r1 |-> fov_rad,
          c1r2 |-> F(0),
          c1r3 |-> F(0),
          c2r0 |-> F(0),
          c2r1 |-> F(0),
          c2r2 |-> FDiv(far, FAdd(far, near)),
          c2r3 |-> F(1),
          c3r0 |-> F(0),
          c3r1 |-> F(0),
          c3r2 |-> FDiv(FMul(FNeg(far), near), FSub(far, near)),
          c3r3 |-> F(0) ]

Mat4f_perspective(fov_deg, aspect_ratio, near, far) ==
    LET fov_rad == FDiv(F(1), TanHalfDeg(fov_deg))
    IN  [ c0r0 |-> FMul(aspect_ratio, fov_rad),
          c0r1 |-> F(0),
          c0r2 |-> F(0),
          c0r3 |-> F(0),
          c1r0 |-> F(0),
          c1r1 |-> fov_rad,
          c1r2 |-> F(0),
          c1r3 |-> F(0),
          c2r0 |-> F(0),
          c2r1 |-> F(0),
          c2r2 |-> FDiv(far, FSub(far, near)),
          c2r3 |-> F(1),
          c3r0 |-> F(0),
          c3r1 |-> F(0),
          c3r2 |-> FDiv(FMul(FNeg(far), near), FSub(far, near)),
          c3r3 |-> F(0) ]

---------------------------------------------------------------------------
(* f32 to the bit.  Where a statement compares the results of different    *)
(* computations with ==, rounding decides it, and the exact values above   *)
(* do not.  Here an f32 is <<s, m, e>>: sign s in {-1, 0, 1} and, when     *)
(* s # 0, the value s * m * 2^e with 2^23 <= m < 2^24 (a normal number);   *)
(* zero is <<0, 0, 0>>.  Every operation rounds its exact result to the    *)
(* nearest such number, ties to even, as IEEE 754 does.  Subnormals,       *)
(* overflow and NaN are out of reach of the inputs drawn below.            *)

RECURSIVE BitLen(_)
BitLen(n) == IF n = 0 THEN 0 ELSE 1 + BitLen(n \div 2)

f32_zero == <<0, 0, 0>>

\* The f32 nearest to s * n * 2^e (n > 0, below 2^30), ties to even.
f32_round(s, n, e) ==
    LET len == BitLen(n)
    IN  IF len <= 24
        THEN <<s, n * 2^(24 - len), e - (24 - len)>>
        ELSE LET sh == len - 24
                 q == n \div 2^sh
                 r == n % 2^sh
                 half == 2^(sh - 1)
                 up == r > half \/ (r = half /\ q % 2 = 1)
                 q1 == IF up THEN q + 1 ELSE q
             IN  IF q1 = 2^24 THEN <<s, 2^23, e + sh + 1>> ELSE <<s, q1, e + sh>>

\* The literal n.0 for an integer n.
f32_from_int(n) ==
    IF n = 0 THEN f32_zero ELSE f32_round(IF n < 0 THEN -1 ELSE 1, Abs(n), 0)

\* a * b.  The 48-bit product of the significands is hi * 2^24 + lo; its top
\* bits and a sticky bit for the rest are what rounding reads.
f32_mul(a, b) ==
    IF a[1] = 0 \/ b[1] = 0 THEN f32_zero
    ELSE LET ah == a[2] \div 4096
             al == a[2] % 4096
             bh == b[2] \div 4096
             bl == b[2] % 4096
             mid == ah * bl + al * bh
             t == al * bl + (mid % 4096) * 4096
             lo == t % 2^24
             hi == ah * bh + mid \div 4096 + t \div 2^24
             top == hi * 4 + lo \div 2^22
             sticky == IF lo % 2^22 = 0 THEN 0 ELSE 1
         IN  f32_round(a[1] * b[1], 2 * top + sticky, a[3] + b[3] + 21)

\* a + b for a and b of the same sign (or zero): two guard bits and a sticky
\* bit of the smaller operand are kept.
f32_add(a, b) ==
    CASE a[1] = 0 -> b
      [] b[1] = 0 -> a
      [] a[1] = b[1] /\ a[1] # 0 ->
            LET big == IF a[3] >= b[3] THEN a ELSE b
                small == IF a[3] >= b[3] THEN b ELSE a
                d == big[3] - small[3]
            IN  IF d > 25 THEN big
                ELSE LET s4 == small[2] * 4
                         sticky == IF s4 % 2^d = 0 THEN 0 ELSE 1
                     IN  f32_round(a[1], 2 * (big[2] * 4 + s4 \div 2^d) + sticky,
                                   big[3] - 3)

\* Long division: the quotient of (rem * 2^n) by d as <<quotient, remainder>>,
\* the quotient continuing from q.
RECURSIVE DivBits(_, _, _, _)
DivBits(rem, q, d, n) ==
    IF n = 0 THEN <<q, rem>>
    ELSE LET r2 == 2 * rem
         IN  IF r2 >= d THEN DivBits(r2 - d, 2 * q + 1, d, n - 1)
                        ELSE DivBits(r2, 2 * q, d, n - 1)

\* a / b for b # 0.
f32_div(a, b) ==
    IF a[1] = 0 THEN f32_zero
    ELSE LET qr == DivBits(a[2] % b[2], a[2] \div b[2], b[2], 26)
             sticky == IF qr[2] = 0 THEN 0 ELSE 1
         IN  f32_round(a[1] * b[1], 2 * qr[1] + sticky, a[3] - b[3] - 27)

\* Square root by pairs of bits: root and remainder of the number made of the
\* pairs of n read from the top (n below 4^pairs), then of `zeros` zero pairs.
RECURSIVE SqrtBits(_, _, _, _, _)
SqrtBits(root, rem, n, pairs, zeros) ==
    IF pairs = 0 /\ zeros = 0 THEN <<root, rem>>
    ELSE LET next == IF pairs > 0 THEN (n \div 4^(pairs - 1)) % 4 ELSE 0
             r4 == rem * 4 + next
             trial == 4 * root + 1
             p1 == IF pairs > 0 THEN pairs - 1 ELSE 0
             z1 == IF pairs > 0 THEN zeros ELSE zeros - 1
         IN  IF r4 >= trial THEN SqrtBits(2 * root + 1, r4 - trial, n, p1, z1)
                            ELSE SqrtBits(2 * root, r4, n, p1, z1)

\* a.sqrt() for a >= 0.
f32_sqrt(a) ==
    IF a[1] = 0 THEN f32_zero
    ELSE LET odd == a[3] % 2 = 1
             m2 == IF odd THEN 2 * a[2] ELSE a[2]
             e2 == IF odd THEN a[3] - 1 ELSE a[3]
             rr == SqrtBits(0, 0, m2, 13, 14)
             sticky == IF rr[2] = 0 THEN 0 ELSE 1
         IN  f32_round(1, 2 * rr[1] + sticky, (e2 \div 2) - 15)

\* |a - b| < 2^p, for a and b that are equal, or one of them zero, or whose
\* exponents differ by at most 6.
f32_abs_diff_lt(a, b, p) ==
    CASE a = b -> TRUE
      [] a # b /\ a[1] = 0 -> BitLen(b[2]) + b[3] <= p
      [] a # b /\ a[1] # 0 /\ b[1] = 0 -> BitLen(a[2]) + a[3] <= p
      [] a # b /\ a[1] # 0 /\ b[1] # 0 /\ Abs(a[3] - b[3]) <= 6 ->
            LET e == IF a[3] <= b[3] THEN a[3] ELSE b[3]
                diff == Abs(a[1] * a[2] * 2^(a[3] - e) - b[1] * b[2] * 2^(b[3] - e))
            IN  BitLen(diff) + e <= p

f32_one == f32_from_int(1)

\* nor2 > 0.0
f32_is_pos(a) == a[1] = 1

(* normalize, dot and magnitude of the three vector types, to the bit. *)

Vec2f_new(x, y) == [ x |-> x, y |-> y ]

Vec2f_normalize(v) ==
    LET nor2 == f32_add(f32_mul(v.x, v.x), f32_mul(v.y, v.y))
    IN  IF f32_is_pos(nor2)
        THEN LET inv_nor == f32_div(f32_one, f32_sqrt(nor2))
             IN  [ x |-> f32_mul(v.x, inv_nor),
                   y |-> f32_mul(v.y, inv_nor) ]
        ELSE [ x |-> v.x,
               y |-> v.y ]

Vec2f_dot(v, rhs) ==
    f32_add(f32_mul(v.x, rhs.x), f32_mul(v.y, rhs.y))

Vec2f_magnitude(v) ==
    f32_sqrt(f32_add(f32_mul(v.x, v.x), f32_mul(v.y, v.y)))

\* normalize dividing by the squared length: the square root is left out.
Vec3f_normalize_f32_unrooted(v) ==
    LET nor2 == f32_add(f32_add(f32_mul(v.x, v.x), f32_mul(v.y, v.y)), f32_mul(v.z, v.z))
    IN  IF f32_is_pos(nor2)
        THEN LET inv_nor == f32_div(f32_one, nor2)
             IN  [ x |-> f32_mul(v.x, inv_nor),
                   y |-> f32_mul(v.y, inv_nor),
                   z |-> f32_mul(v.z, inv_nor) ]
        ELSE [ x |-> v.x,
               y |-> v.y,
               z |-> v.z ]

\* Vec3f::normalize on f32 to the bit (Vec3f_normalize is the same code on
\* exact values).
Vec3f_normalize_f32(v) ==
    LET nor2 == f32_add(f32_add(f32_mul(v.x, v.x), f32_mul(v.y, v.y)), f32_mul(v.z, v.z))
    IN  IF f32_is_pos(nor2)
        THEN LET inv_nor == f32_div(f32_one, f32_sqrt(nor2))
             IN  [ x |-> f32_mul(v.x, inv_nor),
                   y |-> f32_mul(v.y, inv_nor),
                   z |-> f32_mul(v.z, inv_nor) ]
        ELSE [ x |-> v.x,
               y |-> v.y,
               z |-> v.z ]

Vec3f_dot_f32(v, rhs) ==
    f32_add(f32_add(f32_mul(v.x, rhs.x), f32_mul(v.y, rhs.y)), f32_mul(v.z, rhs.z))

Vec3f_magnitude(v) ==
    f32_sqrt(f32_add(f32_add(f32_mul(v.x, v.x), f32_mul(v.y, v.y)), f32_mul(v.z, v.z)))

Vec4f_from_parts(x, y, z, w) == [ x |-> x, y |-> y, z |-> z, w |-> w ]

Vec4f_normalize(v) ==
    LET nor2 == f32_add(f32_add(f32_add(f32_mul(v.x, v.x), f32_mul(v.y, v.y)),
                                f32_mul(v.z, v.z)), f32_mul(v.w, v.w))
    IN  IF f32_is_pos(nor2)
        THEN LET inv_nor == f32_div(f32_one, f32_sqrt(nor2))
             IN  [ x |-> f32_mul(v.x, inv_nor),
                   y |-> f32_mul(v.y, inv_nor),
                   z |-> f32_mul(v.z, inv_nor),
                   w |-> f32_mul(v.w, inv_nor) ]
        ELSE [ x |-> v.x,
               y |-> v.y,
               z |-> v.z,
               w |-> v.w ]

Vec4f_dot(v, rhs) ==
    f32_add(f32_add(f32_add(f32_mul(v.x, rhs.x), f32_mul(v.y, rhs.y)),
                    f32_mul(v.z, rhs.z)), f32_mul(v.w, rhs.w))

Vec4f_magnitude(v) ==
    f32_sqrt(f32_add(f32_add(f32_add(f32_mul(v.x, v.x), f32_mul(v.y, v.y)),
                             f32_mul(v.z, v.z)), f32_mul(v.w, v.w)))

\* std::f32::EPSILON is 2^-23.
EpsilonExp == -23

\* impl PartialEq for Vec4f: every component differs by less than EPSILON.
Vec4f_eq(v, other) ==
    LET x == f32_abs_diff_lt(v.x, other.x, EpsilonExp)
        y == f32_abs_diff_lt(v.y, other.y, EpsilonExp)
        z == f32_abs_diff_lt(v.z, other.z, EpsilonExp)
        w == f32_abs_diff_lt(v.w, other.w, EpsilonExp)
    IN  x /\ y /\ z /\ w

---------------------------------------------------------------------------
(* Inputs and bounds *)

\* Assignment operators (+=, -=, *=) applied to a matrix since it was built.
MaxSteps == 1

\* Largest absolute entry a *= may produce.
MaxAbs == 40

\* Largest absolute coordinate of a look_at target.
MaxTarget == 2

\* A nested array of integers as a nested array of f32.
FArr(a) == [i \in DOMAIN a |-> [j \in DOMAIN a[i] |-> F(a[i][j])]]

\* The nested arrays the tests of mat2f.rs, mat3f.rs and mat4f.rs build from.
SeedArrays2 ==
    { FArr(<< <<1, 2>>, <<3, 4>> >>),
      FArr(<< <<-3, 5>>, <<1, -2>> >>) }

SeedArrays3 ==
    { FArr(<< <<1, 2, 3>>, <<3, 1, 2>>, <<3, 2, 1>> >>),
      FArr(<< <<1, 2, 3>>, <<4, 5, 6>>, <<7, 8, 9>> >>),
      FArr(<< <<-3, 5, 0>>, <<1, -2, -7>>, <<0, 1, 1>> >>) }

SeedArrays4 ==
    { FArr(<< <<1, 2, 3, 4>>, <<2, 1, 2, 3>>, <<3, 2, 1, 2>>, <<4, 3, 2, 1>> >>),
      FArr(<< <<0, 1, 2, 3>>, <<7, 6, 5, 4>>, <<8, 9, 10, 11>>, <<15, 14, 13, 12>> >>),
      FArr(<< <<0, 1, 2, 3>>, <<7, 6, 5, 4>>, <<8, 9, 8, 7>>, <<3, 4, 5, 6>> >>) }

\* The n x n arrays with a single 1.0: the operands of += and -=.
UnitArrays(n) ==
    { [r \in 1..n |-> [c \in 1..n |-> IF r = i /\ c = j THEN F(1) ELSE F(0)]] :
        i \in 1..n, j \in 1..n }
UnitArrays2 == UnitArrays(2)
UnitArrays3 == UnitArrays(3)
UnitArrays4 == UnitArrays(4)

\* The right-hand (or left-hand) operands of * and *=.
Operands2 == {Mat2f_identity} \cup {Mat2f_from_array_rows(a) : a \in SeedArrays2}
Operands3 == {Mat3f_identity} \cup {Mat3f_from_rows(a) : a \in SeedArrays3}
Operands4 == {Mat4f_identity} \cup {Mat4f_from_rows(a) : a \in SeedArrays4}

\* The vectors a Mat4f transforms: the basis, the origin and the tests' vectors.
VecInputs ==
    { Vec3f_from_parts(F(c[1]), F(c[2]), F(c[3])) :
        c \in { <<0, 0, 0>>, <<1, 0, 0>>, <<0, 1, 0>>, <<0, 0, 1>>,
                <<1, 2, 3>>, <<3, -2, 5>>, <<-1, -2, -3>> } }

\* The look_at targets; eye and up are those of tests::test_lookat.
Targets ==
    { Vec3f_from_parts(F(x), F(y), F(z)) :
        x \in -MaxTarget..MaxTarget, y \in -MaxTarget..MaxTarget,
        z \in -MaxTarget..MaxTarget }

Eye0 == Vec3f_from_parts(F(0), F(0), F(0))
Up0 == Vec3f_from_parts(F(0), F(0), F(1))

\* Largest near and far plane distance given to perspective.
MaxDepth == 3

\* The arguments of perspective: <<fov_deg, aspect_ratio, near, far>>.  A far
\* equal to near makes perspective divide by zero and is not drawn.
Frustums ==
    { fr \in { <<F(fov), F(aspect), F(near), F(far)>> :
                  fov \in {60, 90, 120}, aspect \in {1, 2},
                  near \in 0..MaxDepth, far \in 0..MaxDepth } : fr[3] # fr[4] }

\* The points transformed by a perspective matrix.
Points ==
    { Vec3f_from_parts(F(c[1]), F(c[2]), F(z)) :
        c \in { <<0, 0>>, <<1, -2>>, <<3, 5>> }, z \in -1..MaxDepth }

\* Largest absolute component of a vector given to normalize.
MaxCoord == 2

\* Calls of normalize applied one after the other.
MaxNormalize == 2

Coords == { f32_from_int(n) : n \in -MaxCoord..MaxCoord }

\* The vectors of dimension n with components in Coords.
VecsOf(n) ==
    CASE n = 2 -> { Vec2f_new(x, y) : x \in Coords, y \in Coords }
      [] n = 3 -> { Vec3f_from_parts(x, y, z) : x \in Coords, y \in Coords, z \in Coords }
      [] n = 4 -> { Vec4f_from_parts(x, y, z, w) :
                      x \in Coords, y \in Coords, z \in Coords, w \in Coords }

\* Largest absolute component of an operand of cross.
MaxCross == 1

CrossInputs ==
    { Vec3f_from_parts(F(x), F(y), F(z)) :
        x \in -MaxCross..MaxCross, y \in -MaxCross..MaxCross,
        z \in -MaxCross..MaxCross }

\* No entry of m exceeds MaxAbs in absolute value.
Small(m) == \A f \in DOMAIN m : Abs(m[f][1]) <= MaxAbs * m[f][2]

---------------------------------------------------------------------------
(* The state machine: one matrix value `self` of type Mat<dim>f, built by a *)
(* constructor and changed by the assignment operators; `out` records the  *)
(* last operation, its argument and the value it returned.  A run builds a *)
(* matrix, applies assignment operators to it and ends with the call of    *)
(* one method (out.ret): the methods take &self and leave the matrix as it *)
(* is, so a run that went on after a call would reach no other matrix.     *)

Nothing == <<>>

Result(op, arg, val, ret) == [op |-> op, arg |-> arg, val |-> val, ret |-> ret]

\* A constructor: self is replaced by the value built.
Construct(op, arg, m) ==
    /\ ~out.ret
    /\ self' = m
    /\ steps' = 0
    /\ out' = Result(op, arg, m, FALSE)
    /\ UNCHANGED dim

\* An assignment operator `*self = m`.
Assign(op, arg, m) ==
    /\ ~out.ret
    /\ steps < MaxSteps
    /\ self' = m
    /\ steps' = steps + 1
    /\ out' = Result(op, arg, m, FALSE)
    /\ UNCHANGED dim

\* A method taking &self (or self by copy) and returning val.
Observe(op, arg, val) ==
    /\ ~out.ret
    /\ out' = Result(op, arg, val, TRUE)
    /\ UNCHANGED <<dim, self, steps>>

Init ==
    /\ dim \in {2, 3, 4}
    /\ self = CASE dim = 2 -> Mat2f_identity
                [] dim = 3 -> Mat3f_identity
                [] dim = 4 -> Mat4f_identity
    /\ steps = 0
    /\ out = Result("identity", Nothing, self, FALSE)

(* Mat2f *)
Mat2fFromArrayRows ==
    /\ dim = 2
    /\ \E a \in SeedArrays2 :
       Construct("from_array_rows", a, Mat2f_from_array_rows(a))
Mat2fFromArrayCols ==
    /\ dim = 2
    /\ \E a \in SeedArrays2 :
       Construct("from_array_cols", a, Mat2f_from_array_cols(a))
Mat2fAddAssign ==
    /\ dim = 2
    /\ \E a \in UnitArrays2 :
       Assign("add_assign", a, Mat2f_add(self, Mat2f_from_array_rows(a)))
Mat2fSubAssign ==
    /\ dim = 2
    /\ \E a \in UnitArrays2 :
       Assign("sub_assign", a, Mat2f_sub(self, Mat2f_from_array_rows(a)))
Mat2fMulAssign ==
    /\ dim = 2
    /\ \E rhs \in Operands2 :
       /\ Small(Mat2f_mul(self, rhs))
       /\ Assign("mul_assign", <<self, rhs>>, Mat2f_mul(self, rhs))
Mat2fToArrayRows ==
    /\ dim = 2
    /\ Observe("to_array_rows", Nothing, Mat2f_to_array_rows(self))
Mat2fToArrayCols ==
    /\ dim = 2
    /\ Observe("to_array_cols", Nothing, Mat2f_to_array_cols(self))
Mat2fTranspose ==
    /\ dim = 2
    /\ Observe("transpose", Nothing, Mat2f_transpose(self))
Mat2fDeterminant ==
    /\ dim = 2
    /\ Observe("determinant", Nothing, Mat2f_determinant(self))
Mat2fInvert ==
    /\ dim = 2
    /\ Observe("invert", Nothing, Mat2f_invert(self))
Mat2fMul ==
    /\ dim = 2
    /\ \E g \in Operands2, left \in BOOLEAN :
       LET lhs == IF left THEN g ELSE self
           rhs == IF left THEN self ELSE g
       IN  Observe("mul", <<lhs, rhs>>, Mat2f_mul(lhs, rhs))

(* Mat3f *)
Mat3fZero ==
    /\ dim = 3
    /\ Construct("zero", Nothing, Mat3f_zero)
Mat3fFromRows ==
    /\ dim = 3
    /\ \E a \in SeedArrays3 :
       Construct("from_rows", a, Mat3f_from_rows(a))
Mat3fFromCols ==
    /\ dim = 3
    /\ \E a \in SeedArrays3 :
       Construct("from_cols", a, Mat3f_from_cols(a))
Mat3fAddAssign ==
    /\ dim = 3
    /\ \E a \in UnitArrays3 :
       Assign("add_assign", a, Mat3f_add(self, Mat3f_from_rows(a)))
Mat3fSubAssign ==
    /\ dim = 3
    /\ \E a \in UnitArrays3 :
       Assign("sub_assign", a, Mat3f_sub(self, Mat3f_from_rows(a)))
Mat3fMulAssign ==
    /\ dim = 3
    /\ \E rhs \in Operands3 :
       /\ Small(Mat3f_mul(self, rhs))
       /\ Assign("mul_assign", <<self, rhs>>, Mat3f_mul(self, rhs))
Mat3fToRows ==
    /\ dim = 3
    /\ Observe("to_rows", Nothing, Mat3f_to_rows(self))
Mat3fCols ==
    /\ dim = 3
    /\ Observe("cols", Nothing, Mat3f_cols(self))
Mat3fTranspose ==
    /\ dim = 3
    /\ Observe("transpose", Nothing, Mat3f_transpose(self))
Mat3fDeterminant ==
    /\ dim = 3
    /\ Observe("determinant", Nothing, Mat3f_determinant(self))
Mat3fInvert ==
    /\ dim = 3
    /\ Observe("invert", Nothing, Mat3f_invert(self))
Mat3fMul ==
    /\ dim = 3
    /\ \E g \in Operands3, left \in BOOLEAN :
       LET lhs == IF left THEN g ELSE self
           rhs == IF left THEN self ELSE g
       IN  Observe("mul", <<lhs, rhs>>, Mat3f_mul(lhs, rhs))

(* Mat4f *)
Mat4fZero ==
    /\ dim = 4
    /\ Construct("zero", Nothing, Mat4f_zero)
Mat4fFromRows ==
    /\ dim = 4
    /\ \E a \in SeedArrays4 :
       Construct("from_rows", a, Mat4f_from_rows(a))
Mat4fFromCols ==
    /\ dim = 4
    /\ \E a \in SeedArrays4 :
       Construct("from_cols", a, Mat4f_from_cols(a))
Mat4fAddAssign ==
    /\ dim = 4
    /\ \E a \in UnitArrays4 :
       Assign("add_assign", a, Mat4f_add(self, Mat4f_from_rows(a)))
Mat4fSubAssign ==
    /\ dim = 4
    /\ \E a \in UnitArrays4 :
       Assign("sub_assign", a, Mat4f_sub(self, Mat4f_from_rows(a)))
Mat4fMulAssign ==
    /\ dim = 4
    /\ \E rhs \in Operands4 :
       /\ Small(Mat4f_mul(self, rhs))
       /\ Assign("mul_assign", <<self, rhs>>, Mat4f_mul(self, rhs))
Mat4fTranspose ==
    /\ dim = 4
    /\ Observe("transpose", Nothing, Mat4f_transpose(self))
Mat4fDeterminant ==
    /\ dim = 4
    /\ Observe("determinant", Nothing, Mat4f_determinant(self))
Mat4fInvert ==
    /\ dim = 4
    /\ Observe("invert", Nothing, Mat4f_invert(self))
Mat4fMul ==
    /\ dim = 4
    /\ \E g \in Operands4, left \in BOOLEAN :
       LET lhs == IF left THEN g ELSE self
           rhs == IF left THEN self ELSE g
       IN  Observe("mul", <<lhs, rhs>>, Mat4f_mul(lhs, rhs))
Vec3fMulMat4f ==
    /\ dim = 4
    /\ \E v \in VecInputs :
       Observe("vec3f_mul", v, Vec3f_mul_Mat4f(v, self))

Next ==
    \/ Mat2fFromArrayRows \/ Mat2fFromArrayCols
    \/ Mat2fAddAssign \/ Mat2fSubAssign \/ Mat2fMulAssign
    \/ Mat2fToArrayRows \/ Mat2fToArrayCols
    \/ Mat2fTranspose \/ Mat2fDeterminant \/ Mat2fInvert \/ Mat2fMul
    \/ Mat3fZero \/ Mat3fFromRows \/ Mat3fFromCols
    \/ Mat3fAddAssign \/ Mat3fSubAssign \/ Mat3fMulAssign
    \/ Mat3fToRows \/ Mat3fCols
    \/ Mat3fTranspose \/ Mat3fDeterminant \/ Mat3fInvert \/ Mat3fMul
    \/ Mat4fZero \/ Mat4fFromRows \/ Mat4fFromCols
    \/ Mat4fAddAssign \/ Mat4fSubAssign \/ Mat4fMulAssign
    \/ Mat4fTranspose \/ Mat4fDeterminant \/ Mat4fInvert \/ Mat4fMul
    \/ Vec3fMulMat4f

Spec == Init /\ [][Next]_vars

(* Mat4f::look_at, from the eye and up vector of tests::test_lookat. *)
LookAt ==
    /\ dim = 4
    /\ \E target \in Targets :
       Construct("look_at", target, Mat4f_look_at(Eye0, target, Up0))

InitLookAt ==
    /\ dim = 4
    /\ self = Mat4f_identity
    /\ steps = 0
    /\ out = Result("identity", Nothing, self, FALSE)

NextLookAt == LookAt

SpecLookAt == InitLookAt /\ [][NextLookAt]_vars

(* Mat4f::perspective, and the transform of a point by the matrix it built: *)
(* out.arg keeps the arguments the matrix was built from.                  *)
Perspective ==
    /\ dim = 4
    /\ \E fr \in Frustums :
       Construct("perspective", fr, Mat4f_perspective(fr[1], fr[2], fr[3], fr[4]))

Vec3fMulPerspective ==
    /\ dim = 4
    /\ out.op = "perspective"
    /\ \E v \in Points :
       Observe("vec3f_mul", <<out.arg, v>>, Vec3f_mul_Mat4f(v, self))

NextPerspective == Perspective \/ Vec3fMulPerspective

SpecPerspective == InitLookAt /\ [][NextPerspective]_vars

(* normalize applied to a vector and to its own result: self is a Vec2f,    *)
(* Vec3f or Vec4f of f32 to the bit, out.arg the vector normalize was      *)
(* called on and out.val the vector it returned.                           *)
InitNormalize ==
    /\ dim \in {2, 3, 4}
    /\ self \in VecsOf(dim)
    /\ steps = 0
    /\ out = Result(IF dim = 2 THEN "new" ELSE "from_parts", Nothing, self, FALSE)

Renormalize(v) ==
    /\ steps < MaxNormalize
    /\ self' = v
    /\ steps' = steps + 1
    /\ out' = Result("normalize", self, v, FALSE)
    /\ UNCHANGED dim

Vec2fNormalize ==
    /\ dim = 2
    /\ Renormalize(Vec2f_normalize(self))

Vec3fNormalize ==
    /\ dim = 3
    /\ Renormalize(Vec3f_normalize_f32(self))

Vec4fNormalize ==
    /\ dim = 4
    /\ Renormalize(Vec4f_normalize(self))

NextNormalize == Vec2fNormalize \/ Vec3fNormalize \/ Vec4fNormalize

SpecNormalize == InitNormalize /\ [][NextNormalize]_vars

(* Vec3f::cross(l, r), l the vector held and r any other. *)
InitCross ==
    /\ dim = 3
    /\ self \in CrossInputs
    /\ steps = 0
    /\ out = Result("from_parts", Nothing, self, FALSE)

Vec3fCross ==
    /\ dim = 3
    /\ \E r \in CrossInputs :
       Observe("cross", <<self, r>>, Vec3f_cross(self, r))

NextCross == Vec3fCross

SpecCross == InitCross /\ [][NextCross]_vars

---------------------------------------------------------------------------
(* The vocabulary of the statements: elements by row and column, the       *)
(* textbook product and the Leibniz determinant.                           *)

Idx(n) == 0..(n - 1)

\* from_rows applied to the array whose element [i][j] is the pair <<i, j>>:
\* each field of the result holds the row and column it stores.
IndexArray(n) == [i \in 1..n |-> [j \in 1..n |-> <<i - 1, j - 1>>]]

Layout ==
    [n \in 2..4 |-> CASE n = 2 -> Mat2f_from_array_rows(IndexArray(2))
                      [] n = 3 -> Mat3f_from_rows(IndexArray(3))
                      [] n = 4 -> Mat4f_from_rows(IndexArray(4))]

FieldAt ==
    [n \in 2..4 |-> [ij \in Idx(n) \X Idx(n) |->
        CHOOSE f \in DOMAIN Layout[n] : Layout[n][f] = ij]]

\* Element (row i, column j) of the n x n matrix m, as laid out by from_rows.
Elem(n, m, i, j) == m[FieldAt[n][<<i, j>>]]

RECURSIVE FSumSeq(_)
FSumSeq(s) == IF s = <<>> THEN F(0) ELSE FAdd(Head(s), FSumSeq(Tail(s)))

RECURSIVE FProdSeq(_)
FProdSeq(s) == IF s = <<>> THEN F(1) ELSE FMul(Head(s), FProdSeq(Tail(s)))

\* c is the matrix product of a and b: c(i,j) = sum over k of a(i,k)*b(k,j).
IsProduct(n, a, b, c) ==
    \A i \in Idx(n), j \in Idx(n) :
        Elem(n, c, i, j) =
            FSumSeq([k \in 1..n |-> FMul(Elem(n, a, i, k - 1), Elem(n, b, k - 1, j))])

Perms(n) == {p \in [Idx(n) -> Idx(n)] : \A i, j \in Idx(n) : i # j => p[i] # p[j]}

Sign(n, p) ==
    LET inversions == {ij \in Idx(n) \X Idx(n) : ij[1] < ij[2] /\ p[ij[1]] > p[ij[2]]}
    IN  IF Cardinality(inversions) % 2 = 0 THEN 1 ELSE -1

SignedPerms == [n \in 2..4 |-> {<<p, Sign(n, p)>> : p \in Perms(n)}]

RECURSIVE LeibnizSum(_, _, _)
LeibnizSum(n, m, S) ==
    IF S = {} THEN F(0)
    ELSE LET sp == CHOOSE x \in S : TRUE
         IN  FAdd(FMul(F(sp[2]), FProdSeq([i \in 1..n |-> Elem(n, m, i - 1, sp[1][i - 1])])),
                  LeibnizSum(n, m, S \ {sp}))

\* The determinant of m by the Leibniz formula.
LeibnizDet(n, m) == LeibnizSum(n, m, SignedPerms[n])

IdentityOf(n) ==
    CASE n = 2 -> Mat2f_identity [] n = 3 -> Mat3f_identity [] n = 4 -> Mat4f_identity

TransposeOf(n, m) ==
    CASE n = 2 -> Mat2f_transpose(m) [] n = 3 -> Mat3f_transpose(m)
      [] n = 4 -> Mat4f_transpose(m)

\* Row i of m is all zero.
ZeroRow(n, m, i) == \A j \in Idx(n) : Elem(n, m, i, j) = F(0)

---------------------------------------------------------------------------
(* Statements *)

\* C1: for every Mat4f M with determinant(M) != 0, invert(M) is Some(N) with
\* M * N == Mat4f::identity().
C1_Mat4fInverse ==
    (dim = 4 /\ out.op = "invert" /\ ~FIsZero(Mat4f_determinant(self)))
        => /\ out.val # None
           /\ Mat4f_mul(self, out.val[1]) = Mat4f_identity

\* C2: for every Mat3f M with determinant(M) != 0, invert(M) is Some(N), N the
\* adjugate of M over the determinant, so that M * N == Mat3f::identity().
C2_Mat3fInverse ==
    (dim = 3 /\ out.op = "invert" /\ ~FIsZero(Mat3f_determinant(self)))
        => /\ out.val # None
           /\ Mat3f_mul(self, out.val[1]) = Mat3f_identity

\* C3: for every Mat3f and Mat4f m, invert(m) is None if and only if
\* determinant(m) == 0, and Some(..) whenever determinant(m) is non-zero.
C3_NoneIffSingular ==
    /\ (dim = 3 /\ out.op = "invert")
          => ((out.val = None) <=> FIsZero(Mat3f_determinant(self)))
    /\ (dim = 4 /\ out.op = "invert")
          => ((out.val = None) <=> FIsZero(Mat4f_determinant(self)))

\* C4: for every Mat2f m = [[a,b],[c,d]] with ad-bc != 0, invert(m) is the
\* adjugate [[d,-b],[-c,a]] divided by ad-bc, so that m * invert(m) is the
\* identity.
C4_Mat2fInverse ==
    (dim = 2 /\ out.op = "invert" /\ ~FIsZero(Mat2f_determinant(self)))
        => LET a == Elem(2, self, 0, 0)
               b == Elem(2, self, 0, 1)
               c == Elem(2, self, 1, 0)
               d == Elem(2, self, 1, 1)
               det == FSub(FMul(a, d), FMul(b, c))
           IN  /\ out.val = Mat2f_from_array_rows(
                      << <<FDiv(d, det), FDiv(FNeg(b), det)>>,
                         <<FDiv(FNeg(c), det), FDiv(a, det)>> >>)
               /\ Mat2f_mul(self, out.val) = Mat2f_identity

C6_Product ==
    /\ out.op = "mul"
          => /\ IsProduct(dim, out.arg[1], out.arg[2], out.val)
             /\ (out.arg[1] = IdentityOf(dim) => out.val = out.arg[2])
             /\ (out.arg[2] = IdentityOf(dim) => out.val = out.arg[1])
    /\ out.op = "mul_assign"
          => IsProduct(dim, out.arg[1], out.arg[2], self)

C6_Witness ==
    /\ dim = 4 /\ out.op = "mul"
    /\ Mat4f_mul(out.arg[1], out.arg[2]) # Mat4f_mul(out.arg[2], out.arg[1])
    /\ \A i \in Idx(4), j \in Idx(4) : Elem(4, out.val, i, j) # F(0)

\* C7: transpose(m) has element (i,j) equal to m's element (j,i), and the
\* transpose of the transpose is m.
C7_Transpose ==
    out.op = "transpose"
        => /\ \A i \in Idx(dim), j \in Idx(dim) :
                  Elem(dim, out.val, i, j) = Elem(dim, self, j, i)
           /\ TransposeOf(dim, out.val) = self

C7_Witness ==
    /\ dim = 4 /\ out.op = "transpose"
    /\ \A i \in Idx(4), j \in Idx(4) :
          i # j => Elem(4, self, i, j) # Elem(4, self, j, i)

Homogeneous(v, m) ==
    [j \in Idx(4) |->
        FSumSeq(<< FMul(v.x, Elem(4, m, 0, j)), FMul(v.y, Elem(4, m, 1, j)),
                   FMul(v.z, Elem(4, m, 2, j)), FMul(F(1), Elem(4, m, 3, j)) >>)]

\* C9: v * M is the homogeneous product (x,y,z,w) = [v.x, v.y, v.z, 1] * M,
\* divided by w when w != 0 and left undivided when w == 0; v * identity()
\* is v.
C9_VecTransform ==
    (dim = 4 /\ out.op = "vec3f_mul")
        => LET h == Homogeneous(out.arg, self)
           IN  /\ ~FIsZero(h[3]) =>
                     out.val = Vec3f_from_parts(FDiv(h[0], h[3]), FDiv(h[1], h[3]),
                                                FDiv(h[2], h[3]))
               /\ FIsZero(h[3]) => out.val = Vec3f_from_parts(h[0], h[1], h[2])
               /\ self = Mat4f_identity => out.val = out.arg

C9_Witness ==
    /\ dim = 4 /\ out.op = "vec3f_mul"
    /\ Homogeneous(out.arg, self)[3] \notin {F(0), F(1)}
    /\ out.val.x[2] # 1

\* The top-left 3x3 block of m is orthonormal: its columns (the basis vectors
\* look_at packs) and its rows have unit length and are mutually perpendicular.
Orthonormal(m) ==
    \A i \in Idx(3), j \in Idx(3) :
        LET delta == IF i = j THEN F(1) ELSE F(0)
        IN  /\ FSumSeq([k \in 1..3 |-> FMul(Elem(4, m, k - 1, i), Elem(4, m, k - 1, j))])
                  = delta
            /\ FSumSeq([k \in 1..3 |-> FMul(Elem(4, m, i, k - 1), Elem(4, m, j, k - 1))])
                  = delta

DotSelf(n, v) ==
    CASE n = 2 -> Vec2f_dot(v, v) [] n = 3 -> Vec3f_dot_f32(v, v) [] n = 4 -> Vec4f_dot(v, v)

MagnitudeOf(n, v) ==
    CASE n = 2 -> Vec2f_magnitude(v) [] n = 3 -> Vec3f_magnitude(v)
      [] n = 4 -> Vec4f_magnitude(v)

\* normalize returned its argument scaled by 1/magnitude when dot(v,v) > 0 and
\* its argument otherwise, every component a number.
ScaledByMagnitude ==
    LET v == out.arg
    IN  /\ IF f32_is_pos(DotSelf(dim, v))
           THEN out.val = [c \in DOMAIN v |->
                              f32_mul(v[c], f32_div(f32_one, MagnitudeOf(dim, v)))]
           ELSE out.val = v
        /\ (\A c \in DOMAIN v : v[c] = f32_zero) => out.val = v
        /\ \A c \in DOMAIN v :
              \/ out.val[c] = f32_zero
              \/ (out.val[c][1] \in {-1, 1} /\ out.val[c][2] \in 2^23..(2^24 - 1))

\* a == b as the type of dimension n defines it: the derived PartialEq of
\* Vec2f and Vec3f compares the fields, Vec4f has its own eq.
VecEq(n, a, b) == IF n = 4 THEN Vec4f_eq(a, b) ELSE a = b

C13_Cross ==
    out.op = "cross"
        => LET a == out.arg[1]
               b == out.arg[2]
           IN  /\ out.val = Vec3f_from_parts(
                      FSub(FMul(a.y, b.z), FMul(a.z, b.y)),
                      FSub(FMul(a.z, b.x), FMul(a.x, b.z)),
                      FSub(FMul(a.x, b.y), FMul(a.y, b.x)))
               /\ out.val = Vec3f_neg(Vec3f_cross(b, a))

\* A cross product none of whose components is zero.
C13_Witness ==
    /\ out.op = "cross"
    /\ out.val.x # F(0) /\ out.val.y # F(0) /\ out.val.z # F(0)
    /\ out.val # Vec3f_cross(out.arg[2], out.arg[1])

(***************************************************************************)
(* The pixel buffer and its encoders: canvas/canvas.rs, canvas/image.rs,   *)
(* canvas/ppm.rs, canvas/bmp.rs, canvas/channel.rs and image/color.rs.     *)
(*                                                                         *)
(* A usize is a pair <<hi, lo>> standing for hi * 2^16 + lo with           *)
(* lo < 2^16, so that widths beyond 32 bits exist and the `as u32` and     *)
(* `as i32` casts of the BMP header have something to cut off.  Sums and   *)
(* products are the checked ones of the test profile; every sum and        *)
(* product the inputs below reach is far from overflowing.                 *)
(*                                                                         *)
(* An operation that can panic returns [abort, why, val]: why is "assert"  *)
(* for a failed assert! and "index" for the bounds check of Vec indexing.  *)
(***************************************************************************)

usize(n) == <<n \div 2^16, n % 2^16>>

\* a < b
usize_lt(a, b) == a[1] < b[1] \/ (a[1] = b[1] /\ a[2] < b[2])

\* a + b
usize_add(a, b) ==
    LET lo == a[2] + b[2]
    IN  <<a[1] + b[1] + (lo \div 2^16), lo % 2^16>>

\* a * b, for operands of which at most one is 2^16 or more.
usize_mul(a, b) ==
    LET lo == a[2] * b[2]
    IN  <<a[1] * b[2] + a[2] * b[1] + (lo \div 2^16), lo % 2^16>>

\* `v as u32` and `v as i32`: the low 32 bits, as two 16-bit halves.
as_32(v) == <<v[1] % 2^16, v[2]>>

\* write_u32::<LittleEndian> and write_i32::<LittleEndian> of those bits.
write_32_le(v) == <<v[2] % 256, v[2] \div 256, v[1] % 256, v[1] \div 256>>

\* The bitwise | of two naturals.
RECURSIVE BitOr(_, _)
BitOr(a, b) ==
    IF a = 0 THEN b
    ELSE IF b = 0 THEN a
    ELSE (IF a % 2 = 1 \/ b % 2 = 1 THEN 1 ELSE 0) + 2 * BitOr(a \div 2, b \div 2)

\* Display of an unsigned integer ("{}"), as ASCII codes.
RECURSIVE fmt_usize(_)
fmt_usize(v) ==
    LET t == (v[1] % 10) * 2^16 + v[2]
        q == usize_add(<<v[1] \div 10, 0>>, usize(t \div 10))
    IN  IF v[1] = 0 /\ v[2] < 10
        THEN <<48 + v[2]>>
        ELSE fmt_usize(q) \o <<48 + (t % 10)>>

(* Channel(f32) and the Color built of three of them. *)

Channel_from_f32(value) == <<value>>

Channel_to_u8_nearest(value) ==
    LET lo == IF value[1][1] = -1 THEN f32_zero ELSE value[1]
        hi == IF lo[1] = 1 /\ lo[3] >= -23 THEN f32_one ELSE lo
        p == f32_mul(hi, f32_from_int(255))
    IN  IF p[1] = 0 \/ p[3] <= -25 THEN 0
        ELSE IF p[3] >= 0 THEN 255
        ELSE IF (p[2] + 2^(-p[3] - 1)) \div 2^(-p[3]) > 255 THEN 255
        ELSE (p[2] + 2^(-p[3] - 1)) \div 2^(-p[3])

\* (value.0.max(0.0).min(1.0) * 255.0) as u8
Channel_to_u8(value) ==
    LET lo == IF value[1][1] = -1 THEN f32_zero ELSE value[1]
        hi == IF lo[1] = 1 /\ lo[3] >= -23 THEN f32_one ELSE lo
        p == f32_mul(hi, f32_from_int(255))
    IN  IF p[1] = 0 \/ p[3] <= -24 THEN 0
        ELSE IF p[3] >= 0 THEN 255
        ELSE IF p[2] \div 2^(-p[3]) > 255 THEN 255
        ELSE p[2] \div 2^(-p[3])

Color_new(r, g, b) ==
    [ r |-> Channel_from_f32(r),
      g |-> Channel_from_f32(g),
      b |-> Channel_from_f32(b) ]

Color_black == Color_new(f32_zero, f32_zero, f32_zero)

\* a | r | g | b with r, g, b shifted by 24, 16 and 8 and a = 0xFF000000;
\* a u32 is the pair of its 16-bit halves.
Color_to_argb(c) ==
    LET r == <<Channel_to_u8(c.r) * 256, 0>>
        g == <<Channel_to_u8(c.g), 0>>
        b == <<0, Channel_to_u8(c.b) * 256>>
        a == <<65280, 0>>
    IN  <<BitOr(BitOr(BitOr(a[1], r[1]), g[1]), b[1]),
          BitOr(BitOr(BitOr(a[2], r[2]), g[2]), b[2])>>

\* vec![elem; n]
vec(elem, n) == [ i \in 1 .. (n[1] * 2^16 + n[2]) |-> elem ]

(* Canvas.  The struct declares dimensions and color_buffer; set also      *)
(* writes an image_buffer, which is the one Image declares and allocates.  *)

Canvas_new_swapped(width, height) ==
    [ dimensions |-> <<height, width>>,
      color_buffer |-> vec(Color_black, usize_mul(width, height)),
      image_buffer |-> vec(usize(0), usize_mul(width, height)) ]

Canvas_new(width, height) ==
    [ dimensions |-> <<width, height>>,
      color_buffer |-> vec(Color_black, usize_mul(width, height)),
      image_buffer |-> vec(usize(0), usize_mul(width, height)) ]

Canvas_width(c) == c.dimensions[1]

Canvas_height(c) == c.dimensions[2]

Canvas_get_no_stride(c, x, y) ==
    IF ~usize_lt(x, c.dimensions[1]) THEN [abort |-> TRUE, why |-> "assert", val |-> c]
    ELSE IF ~usize_lt(y, c.dimensions[2]) THEN [abort |-> TRUE, why |-> "assert", val |-> c]
    ELSE LET i == usize_add(y, x)
         IN  IF ~usize_lt(i, usize(Len(c.color_buffer)))
             THEN [abort |-> TRUE, why |-> "index", val |-> c]
             ELSE [abort |-> FALSE, why |-> "", val |-> c.color_buffer[i[2] + 1]]

Canvas_get(c, x, y) ==
    IF ~usize_lt(x, c.dimensions[1]) THEN [abort |-> TRUE, why |-> "assert", val |-> c]
    ELSE IF ~usize_lt(y, c.dimensions[2]) THEN [abort |-> TRUE, why |-> "assert", val |-> c]
    ELSE LET i == usize_add(usize_mul(y, c.dimensions[1]), x)
         IN  IF ~usize_lt(i, usize(Len(c.color_buffer)))
             THEN [abort |-> TRUE, why |-> "index", val |-> c]
             ELSE [abort |-> FALSE, why |-> "", val |-> c.color_buffer[i[2] + 1]]

\* val is the canvas the call leaves behind, also when it panics.
Canvas_set_unchecked_y(c, x, y, color) ==
    IF ~usize_lt(x, c.dimensions[1]) THEN [abort |-> TRUE, why |-> "assert", val |-> c]
    ELSE LET i == usize_add(usize_mul(y, c.dimensions[1]), x)
             c1 == [c EXCEPT !.color_buffer[i[2] + 1] = color]
         IN  IF ~usize_lt(i, usize(Len(c.color_buffer)))
             THEN [abort |-> TRUE, why |-> "index", val |-> c]
             ELSE IF ~usize_lt(i, usize(Len(c.image_buffer)))
             THEN [abort |-> TRUE, why |-> "index", val |-> c1]
             ELSE [abort |-> FALSE, why |-> "",
                   val |-> [c1 EXCEPT !.image_buffer[i[2] + 1] = Color_to_argb(color)]]

Canvas_set(c, x, y, color) ==
    IF ~usize_lt(x, c.dimensions[1]) THEN [abort |-> TRUE, why |-> "assert", val |-> c]
    ELSE IF ~usize_lt(y, c.dimensions[2]) THEN [abort |-> TRUE, why |-> "assert", val |-> c]
    ELSE LET i == usize_add(usize_mul(y, c.dimensions[1]), x)
             c1 == [c EXCEPT !.color_buffer[i[2] + 1] = color]
         IN  IF ~usize_lt(i, usize(Len(c.color_buffer)))
             THEN [abort |-> TRUE, why |-> "index", val |-> c]
             ELSE IF ~usize_lt(i, usize(Len(c.image_buffer)))
             THEN [abort |-> TRUE, why |-> "index", val |-> c1]
             ELSE [abort |-> FALSE, why |-> "",
                   val |-> [c1 EXCEPT !.image_buffer[i[2] + 1] = Color_to_argb(color)]]

(* Image. *)

Image_new(width, height) ==
    [ dimensions |-> <<width, height>>,
      color_buffer |-> vec(Color_black, usize_mul(width, height)),
      image_buffer |-> vec(usize(0), usize_mul(width, height)) ]

Image_width(c) == c.dimensions[1]

Image_height(c) == c.dimensions[1]

Image_dimensions(c) == c.dimensions

Image_get(c, x, y) ==
    IF ~usize_lt(x, c.dimensions[1]) THEN [abort |-> TRUE, why |-> "assert", val |-> c]
    ELSE IF ~usize_lt(y, c.dimensions[2]) THEN [abort |-> TRUE, why |-> "assert", val |-> c]
    ELSE LET i == usize_add(usize_mul(y, Image_width(c)), x)
         IN  IF ~usize_lt(i, usize(Len(c.color_buffer)))
             THEN [abort |-> TRUE, why |-> "index", val |-> c]
             ELSE [abort |-> FALSE, why |-> "", val |-> c.color_buffer[i[2] + 1]]

Image_set(c, x, y, color) ==
    IF ~usize_lt(x, c.dimensions[1]) THEN [abort |-> TRUE, why |-> "assert", val |-> c]
    ELSE IF ~usize_lt(y, c.dimensions[2]) THEN [abort |-> TRUE, why |-> "assert", val |-> c]
    ELSE LET i == usize_add(usize_mul(y, c.dimensions[1]), x)
         IN  IF ~usize_lt(i, usize(Len(c.color_buffer)))
             THEN [abort |-> TRUE, why |-> "index", val |-> c]
             ELSE [abort |-> FALSE, why |-> "",
                   val |-> [c EXCEPT !.color_buffer[i[2] + 1] = color]]

(* The encoders.  The output is the sequence of bytes written; text is in  *)
(* ASCII codes (80 51 10 is "P3\n", 32 a space, 10 a newline).             *)

\* The two loops of to_ppm from pixel (x, y) on; count and output are the
\* loop's variables.
RECURSIVE ppm_pixels(_, _, _, _, _)
ppm_pixels(c, y, x, count, output) ==
    IF ~usize_lt(usize(y), Canvas_height(c))
    THEN [abort |-> FALSE, why |-> "", val |-> output]
    ELSE IF ~usize_lt(usize(x), Canvas_width(c))
    THEN ppm_pixels(c, y + 1, 0, count, output)
    ELSE LET color == Canvas_get(c, usize(x), usize(y))
             triple == fmt_usize(usize(Channel_to_u8(color.val.r))) \o <<32>>
                       \o fmt_usize(usize(Channel_to_u8(color.val.g))) \o <<32>>
                       \o fmt_usize(usize(Channel_to_u8(color.val.b)))
         IN  IF color.abort THEN color
             ELSE IF count < 4
             THEN ppm_pixels(c, y, x + 1, count + 1, output \o triple \o <<32>>)
             ELSE ppm_pixels(c, y, x + 1, 0, output \o triple \o <<10>>)

Canvas_to_ppm_header_swapped(c) ==
    ppm_pixels(c, 0, 0, 0,
               <<80, 51, 10>>
               \o fmt_usize(Canvas_height(c)) \o <<32>>
               \o fmt_usize(Canvas_width(c)) \o <<10>>
               \o <<50, 53, 53, 10>>)

Canvas_to_ppm_count_from_1(c) ==
    ppm_pixels(c, 0, 0, 1,
               <<80, 51, 10>>
               \o fmt_usize(Canvas_width(c)) \o <<32>>
               \o fmt_usize(Canvas_height(c)) \o <<10>>
               \o <<50, 53, 53, 10>>)

Canvas_to_ppm(c) ==
    ppm_pixels(c, 0, 0, 0,
               <<80, 51, 10>>
               \o fmt_usize(Canvas_width(c)) \o <<32>>
               \o fmt_usize(Canvas_height(c)) \o <<10>>
               \o <<50, 53, 53, 10>>)

\* The two loops of to_bmp from pixel (x, y) on.
RECURSIVE bmp_pixels(_, _, _, _)
bmp_pixels(c, y, x, output) ==
    IF ~usize_lt(usize(y), Canvas_height(c))
    THEN [abort |-> FALSE, why |-> "", val |-> output]
    ELSE IF ~usize_lt(usize(x), Canvas_width(c))
    THEN bmp_pixels(c, y + 1, 0, output)
    ELSE LET color == Canvas_get(c, usize(x), usize(y))
         IN  IF color.abort THEN color
             ELSE bmp_pixels(c, y, x + 1,
                             output \o <<255,
                                         Channel_to_u8(color.val.r),
                                         Channel_to_u8(color.val.g),
                                         Channel_to_u8(color.val.b)>>)

Canvas_to_bmp_height_first(c) ==
    LET data_size == usize_mul(usize_mul(Canvas_width(c), Canvas_height(c)), usize(4))
        file_size == usize_add(usize_add(usize(14), usize(40)), data_size)
    IN  bmp_pixels(c, 0, 0,
                   <<66, 77>>
                   \o write_32_le(as_32(file_size))
                   \o write_32_le(usize(0))
                   \o write_32_le(usize(54))
                   \o write_32_le(usize(40))
                   \o write_32_le(as_32(Canvas_height(c)))
                   \o write_32_le(as_32(Canvas_width(c)))
                   \o <<1, 0>>
                   \o <<32, 0>>
                   \o write_32_le(usize(0))
                   \o write_32_le(as_32(data_size))
                   \o write_32_le(usize(0))
                   \o write_32_le(usize(0))
                   \o write_32_le(usize(0))
                   \o write_32_le(usize(0)))

Canvas_to_bmp(c) ==
    LET data_size == usize_mul(usize_mul(Canvas_width(c), Canvas_height(c)), usize(4))
        file_size == usize_add(usize_add(usize(14), usize(40)), data_size)
    IN  bmp_pixels(c, 0, 0,
                   <<66, 77>>
                   \o write_32_le(as_32(file_size))
                   \o write_32_le(usize(0))
                   \o write_32_le(usize(54))
                   \o write_32_le(usize(40))
                   \o write_32_le(as_32(Canvas_width(c)))
                   \o write_32_le(as_32(Canvas_height(c)))
                   \o <<1, 0>>
                   \o <<32, 0>>
                   \o write_32_le(usize(0))
                   \o write_32_le(as_32(data_size))
                   \o write_32_le(usize(0))
                   \o write_32_le(usize(0))
                   \o write_32_le(usize(0))
                   \o write_32_le(usize(0)))

(* Inputs of the pixel buffer. *)

\* Grid dimensions and coordinates run from 0 to these.
MaxWidth == 2
MaxHeight == 1

\* set calls in one run.
MaxSets == 2

\* The grid, the 5 x 3 canvas of test_to_ppm, a 3 x 2 canvas (more than five
\* pixels, not a multiple of five), and a canvas without rows whose width,
\* 2^32 + 5, needs more than 32 bits.
Dimensions ==
    { <<usize(w), usize(h)>> : w \in 0 .. MaxWidth, h \in 0 .. MaxHeight }
        \cup { <<usize(5), usize(3)>>, <<usize(3), usize(2)>>, <<<<65536, 5>>, usize(0)>> }

\* Coordinates handed to get and set: inside and outside of every grid,
\* and the last pixel test_to_ppm sets.
Coordinates == ((0 .. MaxWidth) \X (0 .. MaxHeight)) \cup { <<4, 2>> }

\* Two colours over the channel values test_to_ppm uses:
\* (1.5, 0, 0) and (-0.5, 0.5, 1).
Palette ==
    { Color_new(f32_round(1, 3, -1), f32_zero, f32_zero),
      Color_new(f32_round(-1, 1, -1), f32_round(1, 1, -1), f32_one) }

(* The pixel buffer as a state machine.  dim is the constructor call       *)
(* <<type, width, height>>, self the buffer, steps the number of set       *)
(* calls.  out.arg holds the call's coordinate pair, its colour and the    *)
(* buffer it was made on; out.val its outcome: abort and why, the value    *)
(* returned, and written, the colour last handed to a set that returned,   *)
(* per in-range coordinate pair, black where there was none.  A panic and  *)
(* a call that only reads end the run.                                     *)

InRange(p) == usize_lt(usize(p[1]), dim[2]) /\ usize_lt(usize(p[2]), dim[3])

InitCanvas ==
    /\ dim \in { <<T, d[1], d[2]>> : T \in {"Canvas", "Image"}, d \in Dimensions }
    /\ self = IF dim[1] = "Canvas"
              THEN Canvas_new(dim[2], dim[3])
              ELSE Image_new(dim[2], dim[3])
    /\ steps = 0
    /\ out = Result("new",
                    [at |-> Nothing, color |-> Nothing, before |-> Nothing],
                    [abort |-> FALSE, why |-> "", ret |-> Nothing,
                     written |-> [p \in {q \in Coordinates : InRange(q)} |-> Color_black]],
                    FALSE)

\* set(&mut self, x, y, color) with outcome r.
PixelSet(p, color, r) ==
    /\ ~out.ret
    /\ steps < MaxSets
    /\ self' = r.val
    /\ steps' = steps + 1
    /\ out' = Result("set",
                     [at |-> p, color |-> color,
                      before |-> IF r.abort THEN self ELSE Nothing],
                     [abort |-> r.abort, why |-> r.why, ret |-> Nothing,
                      written |-> IF r.abort \/ ~InRange(p)
                                  THEN out.val.written
                                  ELSE [out.val.written EXCEPT ![p] = color]],
                     r.abort)
    /\ UNCHANGED dim

\* A method taking &self with outcome r.
PixelRead(op, p, r) ==
    /\ ~out.ret
    /\ out' = Result(op,
                     [at |-> p, color |-> Nothing, before |-> self],
                     [abort |-> r.abort, why |-> r.why,
                      ret |-> IF r.abort THEN Nothing ELSE r.val,
                      written |-> out.val.written],
                     TRUE)
    /\ UNCHANGED <<dim, self, steps>>

CanvasSet ==
    /\ dim[1] = "Canvas"
    /\ \E p \in Coordinates, color \in Palette :
          PixelSet(p, color, Canvas_set(self, usize(p[1]), usize(p[2]), color))

CanvasGet ==
    /\ dim[1] = "Canvas"
    /\ \E p \in Coordinates :
          PixelRead("get", p, Canvas_get(self, usize(p[1]), usize(p[2])))

CanvasToPpm ==
    /\ dim[1] = "Canvas"
    /\ PixelRead("to_ppm", Nothing, Canvas_to_ppm(self))

CanvasToBmp ==
    /\ dim[1] = "Canvas"
    /\ PixelRead("to_bmp", Nothing, Canvas_to_bmp(self))

ImageSet ==
    /\ dim[1] = "Image"
    /\ \E p \in Coordinates, color \in Palette :
          PixelSet(p, color, Image_set(self, usize(p[1]), usize(p[2]), color))

ImageGet ==
    /\ dim[1] = "Image"
    /\ \E p \in Coordinates :
          PixelRead("get", p, Image_get(self, usize(p[1]), usize(p[2])))

NextCanvas ==
    \/ CanvasSet \/ CanvasGet \/ CanvasToPpm \/ CanvasToBmp
    \/ ImageSet \/ ImageGet

SpecCanvas == InitCanvas /\ [][NextCanvas]_vars

(***************************************************************************)
(* Claims about the pixel buffer.                                          *)
(***************************************************************************)

\* C14: get(x, y) and set(x, y, c) abort, by a failed assertion, exactly when
\* x >= width or y >= height of the buffer's construction; a set that aborts
\* leaves every cell as it was; a get or set in range neither aborts nor
\* indexes outside the colour array.
C14_Bounds ==
    out.op \in {"get", "set"}
        => /\ out.val.abort <=> ~InRange(out.arg.at)
           /\ out.val.abort => out.val.why = "assert"
           /\ (out.op = "set" /\ out.val.abort)
                 => self.color_buffer = out.arg.before.color_buffer

\* A set out of range has aborted on a buffer that holds a colour already.
C14_Witness ==
    /\ out.op = "set"
    /\ out.val.abort
    /\ ~InRange(out.arg.at)
    /\ \E i \in DOMAIN self.color_buffer : self.color_buffer[i] # Color_black

\* get of the buffer's own type.
GetAt(c, p) ==
    IF dim[1] = "Canvas"
    THEN Canvas_get(c, usize(p[1]), usize(p[2]))
    ELSE Image_get(c, usize(p[1]), usize(p[2]))

\* C15: after any sequence of sets in range, get(x, y) returns the colour most
\* recently set at (x, y), black if there was none; a set(x, y, c) makes
\* cell (x, y) hold c and leaves every other cell as it was.
C15_LastSet ==
    [][ /\ (out'.op = "get" /\ ~out'.val.abort)
              => out'.val.ret = out.val.written[out'.arg.at]
        /\ (out'.op = "set" /\ ~out'.val.abort)
              => \A q \in Coordinates :
                    InRange(q)
                       => GetAt(self', q).val = IF q = out'.arg.at
                                                THEN out'.arg.color
                                                ELSE GetAt(self, q).val ]_vars

\* A get has returned the colour of the one cell that two sets wrote.
C15_Witness ==
    /\ out.op = "get"
    /\ ~out.val.abort
    /\ steps = 2
    /\ out.val.ret # Color_black
    /\ Cardinality({ i \in DOMAIN self.color_buffer :
                        self.color_buffer[i] # Color_black }) = 1
    /\ Len(self.color_buffer) > 1

\* width() and height() of the buffer's own type.
WidthOf(c) == IF dim[1] = "Canvas" THEN Canvas_width(c) ELSE Image_width(c)

HeightOf(c) == IF dim[1] = "Canvas" THEN Canvas_height(c) ELSE Image_height(c)

\* C16: in every state reachable from new(width, height) by get, set and the
\* encoders, width() and height() return the width and height of the
\* construction, and the colour array holds width * height cells.
C16_Dimensions ==
    /\ WidthOf(self) = dim[2]
    /\ HeightOf(self) = dim[3]
    /\ usize(Len(self.color_buffer)) = usize_mul(dim[2], dim[3])

\* The number a usize stands for.
NumberOf(n) == n[1] * 2^16 + n[2]

\* C17: Canvas::new(width, height) yields a canvas with width() = width and
\* height() = height of which get(x, y) is black for all x < width and
\* y < height.
C17_NewCanvas ==
    (dim[1] = "Canvas" /\ out.op = "new")
        => /\ Canvas_width(self) = dim[2]
           /\ Canvas_height(self) = dim[3]
           /\ \A y \in 0 .. NumberOf(dim[3]) - 1 : \A x \in 0 .. NumberOf(dim[2]) - 1 :
                 Canvas_get(self, usize(x), usize(y))
                    = [abort |-> FALSE, why |-> "", val |-> Color_black]

\* The 5 x 3 canvas has been constructed.
C17_Witness ==
    /\ dim = <<"Canvas", usize(5), usize(3)>>
    /\ out.op = "new"
    /\ Len(self.color_buffer) = 15

(* Reading text back: the pieces of a byte sequence between separators,    *)
(* empty pieces included, and the number a run of decimal digits spells.   *)

Split(s, seps) ==
    LET IsSeparator(i) == s[i] \in seps
        pos == SelectSeq([ i \in 1 .. Len(s) |-> i ], IsSeparator)
        n == Len(pos)
    IN  [ k \in 1 .. n + 1 |->
            SubSeq(s,
                   IF k = 1 THEN 1 ELSE pos[k - 1] + 1,
                   IF k = n + 1 THEN Len(s) ELSE pos[k] - 1) ]

RECURSIVE ParseDec(_)
ParseDec(t) ==
    IF Len(t) = 1 THEN usize(t[1] - 48)
    ELSE usize_add(usize_mul(ParseDec(SubSeq(t, 1, Len(t) - 1)), usize(10)),
                   usize(t[Len(t)] - 48))

IsDec(t) == t # <<>> /\ \A i \in DOMAIN t : t[i] \in 48 .. 57

\* The text after the three header lines.
PpmData(bytes) ==
    LET lines == Split(bytes, {10})
    IN  SubSeq(bytes, Len(lines[1]) + Len(lines[2]) + Len(lines[3]) + 4, Len(bytes))

\* The numbers of the data: the pieces between blanks and newlines, without
\* the empty piece after the final separator.
PpmNumbers(bytes) ==
    LET pieces == Split(PpmData(bytes), {32, 10})
    IN  IF pieces[Len(pieces)] = <<>> THEN SubSeq(pieces, 1, Len(pieces) - 1) ELSE pieces

\* Red, green and blue of a colour as 8-bit values.
Rgb8(color) ==
    <<Channel_to_u8(color.r), Channel_to_u8(color.g), Channel_to_u8(color.b)>>

\* The 8-bit values of the pixels of canvas c, rows from the top and each
\* row from the left, three per pixel.
RowMajorRgb8(c, width, height) ==
    IF height = usize(0) \/ width = usize(0) THEN <<>>
    ELSE [ i \in 1 .. 3 * NumberOf(width) * NumberOf(height) |->
             LET k == (i - 1) \div 3
                 x == k % NumberOf(width)
                 y == k \div NumberOf(width)
             IN  Rgb8(Canvas_get(c, usize(x), usize(y)).val)[((i - 1) % 3) + 1] ]

\* The header lines and the numbers after them say width, height and rgb.
PpmSays(lines, size, numbers, width, height, rgb) ==
    /\ Len(lines) >= 4
    /\ lines[1] = <<80, 51>>
    /\ Len(size) = 2
    /\ IsDec(size[1]) /\ ParseDec(size[1]) = width
    /\ IsDec(size[2]) /\ ParseDec(size[2]) = height
    /\ lines[3] = <<50, 53, 53>>
    /\ Len(numbers) = Len(rgb)
    /\ \A i \in DOMAIN numbers :
          IsDec(numbers[i]) /\ ParseDec(numbers[i]) = usize(rgb[i])

\* C18: the output of to_ppm starts with the three lines "P3",
\* "<width> <height>" and "255"; after them comes one decimal triple per
\* pixel, rows from the top and each row from the left, spelling to_u8 of the
\* red, green and blue channel the buffer holds for that pixel; the call
\* leaves the buffer as it was.
C18_PpmContent ==
    out.op = "to_ppm"
        => /\ ~out.val.abort
           /\ PpmSays(Split(out.val.ret, {10}),
                      Split(Split(out.val.ret, {10})[2], {32}),
                      PpmNumbers(out.val.ret),
                      dim[2], dim[3],
                      RowMajorRgb8(out.arg.before, dim[2], dim[3]))
           /\ self = out.arg.before

\* The 5 x 3 canvas has been encoded with two of its pixels set.
C18_Witness ==
    /\ out.op = "to_ppm"
    /\ dim = <<"Canvas", usize(5), usize(3)>>
    /\ steps = 2
    /\ Cardinality({ i \in DOMAIN self.color_buffer :
                        self.color_buffer[i] # Color_black }) = 2

\* The separator bytes of a text, in order.
IsBlank(b) == b \in {32, 10}

Separators(text) == SelectSeq(text, IsBlank)

\* Every fifth pixel of the data ends in a newline, every other pixel in one
\* space, and the three numbers of a pixel are one space apart.
FifthPixelEndsLine(data, pixels) ==
    LET seps == Separators(data)
    IN  /\ Len(seps) = 3 * pixels
        /\ Len(Split(data, {32, 10})) = 3 * pixels + 1
        /\ \A i \in 1 .. 3 * pixels : Split(data, {32, 10})[i] # <<>>
        /\ \A k \in 1 .. pixels :
              /\ seps[3 * k - 2] = 32
              /\ seps[3 * k - 1] = 32
              /\ seps[3 * k] = IF k % 5 = 0 THEN 10 ELSE 32

\* The lines of the data, and the number of pixels on one of them.
DataLines(data) ==
    LET lines == Split(data, {10})
    IN  IF lines[Len(lines)] = <<>> THEN SubSeq(lines, 1, Len(lines) - 1) ELSE lines

IsNonEmpty(piece) == piece # <<>>

PixelsOn(line) == Len(SelectSeq(Split(line, {32}), IsNonEmpty)) \div 3

\* C19 as claimed: in the output of to_ppm every fifth pixel emitted ends in a
\* newline and every other pixel in a single space, so that every data line
\* holds exactly five pixels, whatever the width and height.
C19_FivePerLine ==
    (out.op = "to_ppm" /\ ~out.val.abort)
        => LET data == PpmData(out.val.ret)
           IN  /\ FifthPixelEndsLine(data, NumberOf(usize_mul(dim[2], dim[3])))
               /\ \A i \in DOMAIN DataLines(data) : PixelsOn(DataLines(data)[i]) = 5

\* C19, amended: every fifth pixel emitted ends in a newline and every other
\* pixel in a single space, so that every data line holds exactly five
\* pixels, except the last one when width * height is not a multiple of
\* five: it holds the remaining pixels and ends in a space.
C19_FivePerLineButLast ==
    (out.op = "to_ppm" /\ ~out.val.abort)
        => LET data == PpmData(out.val.ret)
               pixels == NumberOf(usize_mul(dim[2], dim[3]))
               lines == DataLines(data)
           IN  /\ FifthPixelEndsLine(data, pixels)
               /\ Len(lines) = (pixels + 4) \div 5
               /\ \A i \in DOMAIN lines :
                     PixelsOn(lines[i]) = IF i * 5 <= pixels THEN 5 ELSE pixels % 5
               /\ pixels % 5 # 0 => data[Len(data)] = 32

\* The 3 x 2 canvas has been encoded: a line of five pixels and one more.
C19_Witness ==
    /\ out.op = "to_ppm"
    /\ dim = <<"Canvas", usize(3), usize(2)>>
    /\ Len(DataLines(PpmData(out.val.ret))) = 2

\* The 32-bit and the 16-bit little-endian number at a byte offset; offsets
\* count from 0.
Le32(bytes, offset) ==
    <<bytes[offset + 3] + 256 * bytes[offset + 4],
      bytes[offset + 1] + 256 * bytes[offset + 2]>>

Le16(bytes, offset) == bytes[offset + 1] + 256 * bytes[offset + 2]

\* The layout of a BMP of a width x height canvas c.
BmpLayout(bytes, c, width, height) ==
    LET size == usize_add(usize(54), usize_mul(usize(4), usize_mul(width, height)))
    IN  /\ usize(Len(bytes)) = size
        /\ bytes[1] = 66 /\ bytes[2] = 77
        /\ Le32(bytes, 2) = size
        /\ Le32(bytes, 6) = usize(0)
        /\ Le32(bytes, 10) = usize(54)
        /\ Le32(bytes, 14) = usize(40)
        /\ Le32(bytes, 18) = width
        /\ Le32(bytes, 22) = height
        /\ Le16(bytes, 26) = 1
        /\ Le16(bytes, 28) = 32
        /\ Le32(bytes, 30) = usize(0)
        /\ Le32(bytes, 34) = usize_mul(usize(4), usize_mul(width, height))
        /\ \A field \in {38, 42, 46, 50} : Le32(bytes, field) = usize(0)
        /\ \A y \in 0 .. NumberOf(height) - 1 : \A x \in 0 .. NumberOf(width) - 1 :
              LET offset == 54 + 4 * (y * NumberOf(width) + x)
              IN  SubSeq(bytes, offset + 1, offset + 4)
                     = <<255>> \o Rgb8(Canvas_get(c, usize(x), usize(y)).val)

\* C20 as claimed: for every width x height buffer to_bmp emits
\* 54 + 4*width*height bytes: "BM", that size as a little-endian u32, four
\* zero bytes, 54; an info header of 40, width, height, 1 plane, 32 bits per
\* pixel, compression 0, data size 4*width*height and four zero fields; then
\* pixel (x, y) at offset 54 + 4*(y*width + x) as 0xFF and to_u8 of r, g, b.
C20_BmpLayout ==
    out.op = "to_bmp"
        => /\ ~out.val.abort
           /\ BmpLayout(out.val.ret, out.arg.before, dim[2], dim[3])

\* C20, amended: the same for every buffer of which width and height are
\* below 2^31 and 54 + 4*width*height is below 2^32, the numbers the
\* header's i32 and u32 fields can hold.
C20_BmpLayoutIn32Bits ==
    (/\ out.op = "to_bmp"
     /\ usize_lt(dim[2], <<2^15, 0>>)
     /\ usize_lt(dim[3], <<2^15, 0>>)
     /\ usize_lt(usize_add(usize(54), usize_mul(usize(4), usize_mul(dim[2], dim[3]))),
                 <<2^16, 0>>))
        => /\ ~out.val.abort
           /\ BmpLayout(out.val.ret, out.arg.before, dim[2], dim[3])

\* The 5 x 3 canvas has been encoded with two of its pixels set.
C20_Witness ==
    /\ out.op = "to_bmp"
    /\ dim = <<"Canvas", usize(5), usize(3)>>
    /\ steps = 2
    /\ Cardinality({ i \in DOMAIN self.color_buffer :
                        self.color_buffer[i] # Color_black }) = 2
    /\ Len(out.val.ret) = 114

---------------------------------------------------------------------------
(***************************************************************************)
(* Channels and colours on their own: the conversions between u8, f32 and  *)
(* the packed u32 forms, and the comparisons.  Differences and orderings   *)
(* of f32 values join the operations above; the channel values drawn below *)
(* are finite, so NaN stays out of reach here as well.                     *)
(***************************************************************************)

f32_neg(a) == <<-a[1], a[2], a[3]>>

\* a.abs()
f32_abs(a) == <<Abs(a[1]), a[2], a[3]>>

\* |a| < |b| for a and b that are not zero.
f32_mag_lt(a, b) == a[3] < b[3] \/ (a[3] = b[3] /\ a[2] < b[2])

\* a < b
f32_lt(a, b) ==
    CASE a[1] < b[1] -> TRUE
      [] a[1] > b[1] -> FALSE
      [] a[1] = b[1] /\ a[1] = 0 -> FALSE
      [] a[1] = b[1] /\ a[1] = 1 -> f32_mag_lt(a, b)
      [] a[1] = b[1] /\ a[1] = -1 -> f32_mag_lt(b, a)

\* a.max(b) and a.min(b)
f32_max(a, b) == IF f32_lt(a, b) THEN b ELSE a

f32_min(a, b) == IF f32_lt(b, a) THEN b ELSE a

\* a - b.  Operands of different signs add up; of the same sign, three guard
\* bits of the larger and a sticky bit of the smaller are kept.
f32_sub(a, b) ==
    CASE b[1] = 0 -> a
      [] b[1] # 0 /\ a[1] = 0 -> f32_neg(b)
      [] b[1] # 0 /\ a[1] # 0 /\ a[1] # b[1] -> f32_add(a, f32_neg(b))
      [] b[1] # 0 /\ a[1] = b[1] /\ a = b -> f32_zero
      [] b[1] # 0 /\ a[1] = b[1] /\ a # b ->
            LET big == IF f32_mag_lt(a, b) THEN b ELSE a
                small == IF f32_mag_lt(a, b) THEN a ELSE b
                s == IF f32_mag_lt(a, b) THEN -a[1] ELSE a[1]
                d == big[3] - small[3]
                s8 == small[2] * 8
                whole == IF d > 27 THEN 0 ELSE s8 \div 2^d
                sticky == IF d > 27 THEN TRUE ELSE s8 % 2^d # 0
                x == big[2] * 8 - whole
            IN  f32_round(s, IF sticky THEN 2 * (x - 1) + 1 ELSE 2 * x, big[3] - 4)

\* `p as u32` for a p below 2^24: the integer part, nothing below zero.
f32_as_u32(p) ==
    IF p[1] <= 0 \/ p[3] <= -24 THEN 0
    ELSE IF p[3] >= 0 THEN p[2] * 2^p[3]
    ELSE p[2] \div 2^(-p[3])

(* canvas/channel.rs *)

Channel_from_u8_by_256(value) == <<f32_div(f32_from_int(value), f32_from_int(256))>>

\* Channel(value as f32 / 255.0)
Channel_from_u8(value) == <<f32_div(f32_from_int(value), f32_from_int(255))>>

\* The literal 0.004: the f32 nearest to it.
Channel_tolerance == f32_div(f32_from_int(4), f32_from_int(1000))

Channel_eq_unclamped(a, b) ==
    f32_lt(f32_abs(f32_sub(a[1], b[1])), Channel_tolerance)

\* (self.0.max(0.0).min(1.0) - other.0.max(0.0).min(1.0)).abs() < 0.004
Channel_eq(a, b) ==
    f32_lt(f32_abs(f32_sub(f32_min(f32_max(a[1], f32_zero), f32_one),
                           f32_min(f32_max(b[1], f32_zero), f32_one))),
           Channel_tolerance)

(* image/color.rs: the Color of three Channels *)

Color_eq_red_only(a, b) == Channel_eq(a.r, b.r)

\* self.r == other.r && self.g == other.g && self.b == other.b
Color_eq(a, b) == Channel_eq(a.r, b.r) /\ Channel_eq(a.g, b.g) /\ Channel_eq(a.b, b.b)

\* r | g | b | a with r, g, b shifted by 24, 16 and 8 and a = 0x000000FF
Color_to_rgba(c) ==
    LET r == <<Channel_to_u8(c.r) * 256, 0>>
        g == <<Channel_to_u8(c.g), 0>>
        b == <<0, Channel_to_u8(c.b) * 256>>
        a == <<0, 255>>
    IN  <<BitOr(BitOr(BitOr(r[1], g[1]), b[1]), a[1]),
          BitOr(BitOr(BitOr(r[2], g[2]), b[2]), a[2])>>

(* canvas/color.rs: the Color of three f32 fields *)

ColorF32_new(r, g, b) == [r |-> r, g |-> g, b |-> b]

ColorF32_black == ColorF32_new(f32_zero, f32_zero, f32_zero)

ColorF32_white == ColorF32_new(f32_one, f32_one, f32_one)

\* u32::from(&Color): each field is passed through .min(0.0).max(1.0), then
\* times 255.0 `as u32`, shifted by 24, 16 and 8, and or-ed with 0xFF.
u32_from_ColorF32(value) ==
    LET c8(x) == f32_as_u32(f32_mul(f32_max(f32_min(x, f32_zero), f32_one),
                                    f32_from_int(255)))
    IN  <<BitOr(c8(value.r) * 256, c8(value.g)), BitOr(c8(value.b) * 256, 255)>>

\* u32::from(self) == u32::from(other)
ColorF32_eq(a, b) == u32_from_ColorF32(a) = u32_from_ColorF32(b)

(* The channel values and colours drawn. *)

\* Channel values run from -MaxChannel / 4 to 1 + MaxChannel / 4 in quarters.
MaxChannel == 2

f32_half == f32_div(f32_one, f32_from_int(2))

\* The values around which the comparisons and the clamp turn: far outside
\* [0, 1], the tolerance and the f32 just below it, one half moved by them,
\* the f32 just below one, and 2^-40.
ChannelEdges ==
    LET t == Channel_tolerance
        below == <<1, t[2] - 1, t[3]>>
    IN  { f32_from_int(-5), f32_from_int(5), t, below,
          f32_add(f32_half, t), f32_add(f32_half, below),
          <<1, 2^24 - 1, -24>>, <<1, 2^23, -63>> }

ChannelGrid ==
    { IF n = 0 THEN f32_zero ELSE f32_div(f32_from_int(n), f32_from_int(4)) :
        n \in -MaxChannel .. (4 + MaxChannel) }

ChannelInputs == ChannelGrid \cup ChannelEdges

Channels == { Channel_from_f32(c) : c \in ChannelInputs }

ColorLevels ==
    ChannelGrid \cup { f32_from_int(-5), f32_from_int(5), f32_add(f32_half, Channel_tolerance) }

ColorTriples == ColorLevels \X ColorLevels \X ColorLevels

\* The right-hand sides of the comparisons: the colours of test_color_equality
\* and one a tolerance away in green.
ColorOthers ==
    { <<f32_zero, f32_zero, f32_zero>>,
      <<f32_one, f32_one, f32_one>>,
      <<f32_zero, f32_half, f32_one>>,
      <<f32_div(f32_one, f32_from_int(4)), f32_half, f32_div(f32_from_int(3), f32_from_int(4))>>,
      <<f32_zero, f32_add(f32_half, Channel_tolerance), f32_one>> }

UnsignedBytes == 0 .. 255

(* The state machine of a value of one of the three types (dim[1]): it is  *)
(* built from f32 values, a Channel also from a u8, and a run ends with    *)
(* one conversion or comparison.                                           *)

InitColor ==
    /\ dim \in { <<"Channel">>, <<"Color">>, <<"ColorF32">> }
    /\ self \in CASE dim[1] = "Channel" -> Channels
                  [] dim[1] = "Color" -> { Color_new(c[1], c[2], c[3]) : c \in ColorTriples }
                  [] dim[1] = "ColorF32" -> { ColorF32_new(c[1], c[2], c[3]) : c \in ColorTriples }
    /\ steps = 0
    /\ out = Result("new", Nothing, self, FALSE)

ChannelFromU8 ==
    /\ dim[1] = "Channel"
    /\ out.op = "new"
    /\ \E value \in UnsignedBytes :
       Construct("from_u8", value, Channel_from_u8(value))

ChannelToU8 ==
    /\ dim[1] = "Channel"
    /\ Observe("to_u8", self, Channel_to_u8(self))

ChannelEq ==
    /\ dim[1] = "Channel"
    /\ \E other \in Channels :
       Observe("eq", <<self, other>>, Channel_eq(self, other))

ColorToRgba ==
    /\ dim[1] = "Color"
    /\ Observe("to_rgba", self, Color_to_rgba(self))

ColorToArgb ==
    /\ dim[1] = "Color"
    /\ Observe("to_argb", self, Color_to_argb(self))

ColorEq ==
    /\ dim[1] = "Color"
    /\ \E c \in ColorOthers :
       Observe("eq", <<self, Color_new(c[1], c[2], c[3])>>,
               Color_eq(self, Color_new(c[1], c[2], c[3])))

ColorF32ToU32 ==
    /\ dim[1] = "ColorF32"
    /\ Observe("u32_from", self, u32_from_ColorF32(self))

ColorF32Eq ==
    /\ dim[1] = "ColorF32"
    /\ \E c \in ColorOthers :
       Observe("eq", <<self, ColorF32_new(c[1], c[2], c[3])>>,
               ColorF32_eq(self, ColorF32_new(c[1], c[2], c[3])))

NextColor ==
    \/ ChannelFromU8 \/ ChannelToU8 \/ ChannelEq
    \/ ColorToRgba \/ ColorToArgb \/ ColorEq
    \/ ColorF32ToU32 \/ ColorF32Eq

SpecColor == InitColor /\ [][NextColor]_vars

---------------------------------------------------------------------------
(* The vocabulary of the statements about channels and colours. *)

\* clamp(c, 0, 1) of an f32 c.
Clamp01(c) ==
    IF c[1] <= 0 THEN f32_zero
    ELSE IF c[3] >= -23 THEN f32_one
    ELSE c

\* c >= 1
AtLeastOne(c) == c[1] = 1 /\ c[3] >= -23

\* C21: to_u8(c) is clamp(c, 0, 1) * 255 (the f32 product) truncated toward
\* zero: 0 for every c <= 0, 255 for every c >= 1, always within 0..=255, and
\* 127 for c = 0.5.
C21_ToU8 ==
    (dim[1] = "Channel" /\ out.op = "to_u8") =>
        LET c == out.arg[1]
        IN  /\ out.val = f32_as_u32(f32_mul(Clamp01(c), f32_from_int(255)))
            /\ out.val \in UnsignedBytes
            /\ (c[1] <= 0 => out.val = 0)
            /\ (AtLeastOne(c) => out.val = 255)
            /\ (c = f32_half => out.val = 127)
            /\ (c = f32_div(f32_from_int(3), f32_from_int(2)) => out.val = 255)
            /\ (c = f32_neg(f32_half) => out.val = 0)

C21_Witness ==
    /\ dim[1] = "Channel"
    /\ out.op = "to_u8"
    /\ out.arg = Channel_from_f32(f32_half)
    /\ out.val = 127

\* C22: for every v in 0..=255, converting v to a Channel (v / 255) and back
\* with to_u8 returns exactly v.
C22_RoundTrip ==
    [][(out.op = "from_u8" /\ out'.op = "to_u8") => out'.val = out.arg]_vars

C22_Witness ==
    /\ dim[1] = "Channel"
    /\ out.op = "to_u8"
    /\ out.arg = Channel_from_u8(254)
    /\ out.val = 254

\* |clamp(a, 0, 1) - clamp(b, 0, 1)| < 0.004 for f32 values a and b, the
\* difference and the bound being f32 values as well.
ClampedClose(a, b) ==
    f32_lt(f32_abs(f32_sub(Clamp01(a), Clamp01(b))), Channel_tolerance)

\* C23: two Channels a and b compare equal if and only if
\* |clamp(a,0,1) - clamp(b,0,1)| < 0.004; in particular two values that are
\* both <= 0, or both >= 1, are equal whatever their raw difference.
C23_ChannelEq ==
    (dim[1] = "Channel" /\ out.op = "eq") =>
        LET a == out.arg[1][1]
            b == out.arg[2][1]
        IN  /\ out.val <=> ClampedClose(a, b)
            /\ (a[1] <= 0 /\ b[1] <= 0) => out.val
            /\ (AtLeastOne(a) /\ AtLeastOne(b)) => out.val

\* 5.0 has been compared with 1.25 and found equal.
C23_Witness ==
    /\ dim[1] = "Channel"
    /\ out.op = "eq"
    /\ out.arg = <<Channel_from_f32(f32_from_int(5)),
                   Channel_from_f32(f32_div(f32_from_int(5), f32_from_int(4)))>>
    /\ out.val

\* C24: two Channel-based Colors compare equal if and only if their r, g and
\* b channels are pairwise equal under the clamped comparison; hence
\* Color::new(-5.0, 0.5, 5.0) == Color::new(0.0, 0.5, 1.0), and colours with
\* a channel whose clamped values differ by 0.004 or more are unequal.
C24_ColorEq ==
    (dim[1] = "Color" /\ out.op = "eq") =>
        LET a == out.arg[1]
            b == out.arg[2]
        IN  /\ out.val <=> /\ Channel_eq(a.r, b.r)
                           /\ Channel_eq(a.g, b.g)
                           /\ Channel_eq(a.b, b.b)
            /\ (\E f \in {"r", "g", "b"} : ~ClampedClose(a[f][1], b[f][1])) => ~out.val
            /\ (/\ a = Color_new(f32_from_int(-5), f32_half, f32_from_int(5))
                /\ b = Color_new(f32_zero, f32_half, f32_one)) => out.val

C24_Witness ==
    /\ dim[1] = "Color"
    /\ out.op = "eq"
    /\ out.arg = <<Color_new(f32_from_int(-5), f32_half, f32_from_int(5)),
                   Color_new(f32_zero, f32_half, f32_one)>>
    /\ out.val

\* The u32 whose bytes are b3, b2, b1, b0 from most to least significant, as
\* the pair of its 16-bit halves.
Bytes4(b3, b2, b1, b0) == <<b3 * 256 + b2, b1 * 256 + b0>>

\* C25: for every Color with 8-bit channel values r8, g8, b8 (to_u8 of each
\* channel), to_rgba() returns the u32 whose bytes from most to least
\* significant are (r8, g8, b8, 0xFF) and to_argb() the u32 whose bytes are
\* (0xFF, r8, g8, b8).
C25_Packed ==
    dim[1] = "Color" =>
        LET r8 == Channel_to_u8(out.arg.r)
            g8 == Channel_to_u8(out.arg.g)
            b8 == Channel_to_u8(out.arg.b)
        IN  /\ out.op = "to_rgba" => out.val = Bytes4(r8, g8, b8, 255)
            /\ out.op = "to_argb" => out.val = Bytes4(255, r8, g8, b8)

\* C26: for all width and height, Image::new(width, height).height() is
\* height and .width() is width, and dimensions() is (width(), height()).
C26_ImageDimensions ==
    (dim[1] = "Image" /\ out.op = "new") =>
        /\ Image_height(self) = dim[3]
        /\ Image_width(self) = dim[2]
        /\ Image_dimensions(self) = <<Image_width(self), Image_height(self)>>

\* trunc(clamp(c, 0, 1) * 255) of an f32 field c.
Clamped8(c) == f32_as_u32(f32_mul(Clamp01(c), f32_from_int(255)))

\* (r8 << 24) | (g8 << 16) | (b8 << 8) | 0xFF of the colour c of f32 fields.
PackedRgba(c) == Bytes4(Clamped8(c.r), Clamped8(c.g), Clamped8(c.b), 255)

\* C27: in the f32-field Color, u32::from(&color) packs the clamped 8-bit
\* values as (r8 << 24) | (g8 << 16) | (b8 << 8) | 0xFF, and two Colors are
\* equal exactly when these packed values are equal; hence
\* Color::new(-5.0, 0.5, 5.0) == Color::new(0.0, 0.5, 1.0) while
\* Color::black() != Color::white().
C27_PackedEq ==
    dim[1] = "ColorF32" =>
        /\ out.op = "u32_from" => out.val = PackedRgba(out.arg)
        /\ out.op = "eq" =>
              /\ out.val <=> PackedRgba(out.arg[1]) = PackedRgba(out.arg[2])
              /\ (/\ out.arg[1] = ColorF32_new(f32_from_int(-5), f32_half, f32_from_int(5))
                  /\ out.arg[2] = ColorF32_new(f32_zero, f32_half, f32_one)) => out.val
              /\ (out.arg = <<ColorF32_black, ColorF32_white>>) => ~out.val

---------------------------------------------------------------------------
(***************************************************************************)
(* Mat2f and its row and column vectors.  The conversions copy fields and  *)
(* round nothing, so the components are the exact values of the matrix     *)
(* section.  mat2f.rs builds the vectors with Vec2f::from_parts(x, y);     *)
(* vec2f.rs names that constructor Vec2f::new.                             *)
(***************************************************************************)

Mat2f_from_vec2f_cols(data) ==
    [ m00 |-> data[1].x,
      m01 |-> data[2].x,
      m10 |-> data[1].y,
      m11 |-> data[2].y ]

Mat2f_from_vec2f_rows(data) ==
    [ m00 |-> data[1].x,
      m01 |-> data[2].x,
      m10 |-> data[1].y,
      m11 |-> data[2].y ]

Mat2f_to_vec2f_rows(m) ==
    << Vec2f_new(m.m00, m.m01),
       Vec2f_new(m.m10, m.m11) >>

Mat2f_to_vec2f_cols(m) ==
    << Vec2f_new(m.m00, m.m10),
       Vec2f_new(m.m01, m.m11) >>

\* The vector components drawn run from 1 to MaxPart, which takes in the
\* (1, 2), (3, 4) of the doc comments.
MaxPart == 4

Vec2fPairs ==
    { << Vec2f_new(F(a), F(b)), Vec2f_new(F(c), F(d)) >> :
        a \in 1 .. MaxPart, b \in 1 .. MaxPart, c \in 1 .. MaxPart, d \in 1 .. MaxPart }

(* A matrix is built from a pair of vectors and then taken apart; the      *)
(* conversion back records the construction it follows (out.arg).          *)

InitVec2f ==
    /\ dim = 2
    /\ self = Mat2f_identity
    /\ steps = 0
    /\ out = Result("identity", Nothing, self, FALSE)

Mat2fFromVec2fRows ==
    /\ dim = 2
    /\ out.op = "identity"
    /\ \E data \in Vec2fPairs :
       Construct("from_vec2f_rows", data, Mat2f_from_vec2f_rows(data))

Mat2fFromVec2fCols ==
    /\ dim = 2
    /\ out.op = "identity"
    /\ \E data \in Vec2fPairs :
       Construct("from_vec2f_cols", data, Mat2f_from_vec2f_cols(data))

Mat2fToVec2fRows ==
    /\ dim = 2
    /\ Observe("to_vec2f_rows", out, Mat2f_to_vec2f_rows(self))

Mat2fToVec2fCols ==
    /\ dim = 2
    /\ Observe("to_vec2f_cols", out, Mat2f_to_vec2f_cols(self))

Mat2fVec2fTranspose ==
    /\ dim = 2
    /\ Observe("transpose", out, Mat2f_transpose(self))

NextVec2f ==
    \/ Mat2fFromVec2fRows \/ Mat2fFromVec2fCols
    \/ Mat2fToVec2fRows \/ Mat2fToVec2fCols \/ Mat2fVec2fTranspose

SpecVec2f == InitVec2f /\ [][NextVec2f]_vars

\* C28: Mat2f::from_vec2f_rows([r0, r1]) builds the matrix whose row 0 is
\* (r0.x, r0.y) and row 1 is (r1.x, r1.y), so that
\* from_vec2f_rows(d).to_vec2f_rows() == d,
\* from_vec2f_cols(d).to_vec2f_cols() == d, and
\* from_vec2f_rows(d) == from_vec2f_cols(d).transpose() for every pair d.
C28_Vec2fRows ==
    /\ out.op = "from_vec2f_rows" =>
          out.val = [ m00 |-> out.arg[1].x, m01 |-> out.arg[1].y,
                      m10 |-> out.arg[2].x, m11 |-> out.arg[2].y ]
    /\ (out.op = "to_vec2f_rows" /\ out.arg.op = "from_vec2f_rows") =>
          out.val = out.arg.arg
    /\ (out.op = "to_vec2f_cols" /\ out.arg.op = "from_vec2f_cols") =>
          out.val = out.arg.arg
    /\ (out.op = "transpose" /\ out.arg.op = "from_vec2f_cols") =>
          out.val = Mat2f_from_vec2f_rows(out.arg.arg)

---------------------------------------------------------------------------
(***************************************************************************)
(* The rasterizer's draw_line on an Image.  The loop runs one iteration    *)
(* per step: the frame holds the loop's variables (x of `for x in x1..x2`, *)
(* y, m_new and slope_error_new), and a call of set that panics ends the   *)
(* run.  The endpoints drawn have x1 <= x2 and y1 <= y2, so the unsigned   *)
(* differences y2 - y1 and x2 - x1 do not underflow; they may lie outside  *)
(* the image.  All the numbers are far from the limits of usize and isize. *)
(***************************************************************************)

\* let m_new = ..; let mut slope_error_new = ..; let mut y = y1; x1..x2
draw_line_enter(x1, y1, x2, y2) ==
    [ m_new |-> 2 * (y2 - y1),
      slope_error_new |-> 2 * (y2 - y1) - (x2 - x1),
      y |-> y1,
      x |-> x1 ]

draw_line_next_always_up(f, x1, x2) ==
    [f EXCEPT !.x = f.x + 1, !.y = f.y + 1,
              !.slope_error_new = f.slope_error_new + f.m_new - 2 * (x2 - x1)]

\* The rest of an iteration after set, and the step of the range.
draw_line_next(f, x1, x2) ==
    LET e == f.slope_error_new + f.m_new
    IN  IF e >= 0
        THEN [f EXCEPT !.x = f.x + 1, !.y = f.y + 1,
                       !.slope_error_new = e - 2 * (x2 - x1)]
        ELSE [f EXCEPT !.x = f.x + 1, !.slope_error_new = e]

\* Images are 1..MaxRaster wide and high, and endpoints run from 0 to
\* MaxRaster in both coordinates.
MaxRaster == 4

\* Color::bright_red()
LineColor == Color_new(f32_one, f32_zero, f32_zero)

InitRaster ==
    /\ dim \in { <<"Image", usize(w), usize(h)>> : w \in 1 .. MaxRaster, h \in 1 .. MaxRaster }
    /\ self = Image_new(dim[2], dim[3])
    /\ steps = 0
    /\ out = Result("new", Nothing, Nothing, FALSE)

\* The call, up to the loop.
DrawLine ==
    /\ dim[1] = "Image"
    /\ out.op = "new"
    /\ \E x1 \in 0 .. MaxRaster, y1 \in 0 .. MaxRaster,
          x2 \in 0 .. MaxRaster, y2 \in 0 .. MaxRaster :
          /\ x1 <= x2
          /\ y1 <= y2
          /\ out' = Result("draw_line",
                           [x1 |-> x1, y1 |-> y1, x2 |-> x2, y2 |-> y2, color |-> LineColor],
                           [frame |-> draw_line_enter(x1, y1, x2, y2),
                            sets |-> <<>>, abort |-> FALSE],
                           FALSE)
    /\ UNCHANGED <<dim, self, steps>>

\* One iteration: self.set(x, y, color), then the slope error and y.
DrawLineIterate ==
    /\ dim[1] = "Image"
    /\ out.op = "draw_line"
    /\ ~out.ret
    /\ out.val.frame.x < out.arg.x2
    /\ LET f == out.val.frame
           r == Image_set(self, usize(f.x), usize(f.y), out.arg.color)
       IN  /\ self' = r.val
           /\ out' = [out EXCEPT
                        !.val = [frame |-> IF r.abort THEN f
                                           ELSE draw_line_next(f, out.arg.x1, out.arg.x2),
                                 sets |-> Append(out.val.sets, <<f.x, f.y>>),
                                 abort |-> r.abort],
                        !.ret = r.abort]
    /\ steps' = steps + 1
    /\ UNCHANGED dim

\* The range is exhausted and draw_line returns.
DrawLineReturn ==
    /\ dim[1] = "Image"
    /\ out.op = "draw_line"
    /\ ~out.ret
    /\ out.val.frame.x >= out.arg.x2
    /\ out' = [out EXCEPT !.ret = TRUE]
    /\ UNCHANGED <<dim, self, steps>>

NextRaster == DrawLine \/ DrawLineIterate \/ DrawLineReturn

SpecRaster == InitRaster /\ [][NextRaster]_vars

\* Both endpoints of the call lie inside the image.
EndpointsInside ==
    /\ out.arg.x2 < NumberOf(dim[2])
    /\ out.arg.y2 < NumberOf(dim[3])

Neighbours8(p, q) == Abs(p[1] - q[1]) <= 1 /\ Abs(p[2] - q[2]) <= 1

\* C30: for endpoints with x1 <= x2 and y1 <= y2 inside the image,
\* draw_line(x1, y1, x2, y2, color) draws a line from (x1, y1) to (x2, y2):
\* the pixels it sets to color form a connected (8-neighbour) run whose first
\* pixel is (x1, y1) and whose last pixel is (x2, y2).
C30_LineDrawn ==
    (dim[1] = "Image" /\ out.op = "draw_line" /\ EndpointsInside /\ out.ret) =>
        LET sets == out.val.sets
        IN  /\ Len(sets) >= 1
            /\ sets[1] = <<out.arg.x1, out.arg.y1>>
            /\ sets[Len(sets)] = <<out.arg.x2, out.arg.y2>>
            /\ \A i \in 1 .. Len(sets) - 1 : Neighbours8(sets[i], sets[i + 1])
            /\ \A i \in 1 .. Len(sets) :
                  Image_get(self, usize(sets[i][1]), usize(sets[i][2])).val = out.arg.color

====
